---- MODULE Spec2Model ----
(***************************************************************************)
(* Pricing synchronisation scripts (Azure, GCP, AWS -> Morpheus).          *)
(*                                                                         *)
(* SpecReconcile : MorpheusClient.create_or_update_price of the Azure and  *)
(*                 the GCP script, one HTTP attempt per step, against a    *)
(*                 destination catalog that answers or fails each attempt. *)
(* SpecFetch     : the three paginated fetchers (Azure                     *)
(*                 _fetch_paginated_data, GCP get_all_skus, AWS            *)
(*                 get_products) against a paged source.                   *)
(* SpecNormalize : convert_azure_to_morpheus_price and create_price_data   *)
(*                 applied to raw items whose texts are spelled out, so    *)
(*                 that lower(), `in` and split() are computed.            *)
(* SpecGroup     : group_prices_for_price_sets (GCP: category_groups) on a *)
(*                 list and on a permutation of it.                        *)
(* SpecRun       : sync_azure_pricing and process_pricing_data, one source *)
(*                 item or one price set per step, each upsert one step,   *)
(*                 up to the summary and the result of the run.            *)
(* SpecExport    : the price-set exports get_all_ec2_pricing (AWS) and     *)
(*                 format_for_morpheus (GCP_pricing.py) on a product list. *)
(* SpecPoller    : one invocation of main() of Auto-Approve.py against the *)
(*                 approvals of the server.                                *)
(* SpecVersions  : the RDS version server (fetch_rds_versions.py), the     *)
(*                 refresh and the GET handler interleaved step by step.   *)
(* SpecStages    : the requests of a sync run to the pricing source and to *)
(*                 the destination catalog, in the order they are issued.  *)
(***************************************************************************)
EXTENDS Integers, Sequences, FiniteSets, TLC

VARIABLES
    variant,    \* which script runs: "azure" | "gcp" | "aws" | "approve" | "rds"
    \* ---- destination catalog and create_or_update_price ----
    catalog,    \* destination price records, in the order the lookup lists them
    nextId,     \* next id the destination assigns
    pc,         \* "idle" | "lookup" | "put" | "post": the request being attempted
    cur,        \* the upsert in progress
    attempt,    \* Azure: loop variable `attempt`; GCP: `retries`
    alog,       \* outcomes of the attempts of the current (or just ended) request
    slept,      \* delays slept between those attempts, in tenths of a second
    areq,       \* that request: method, target id, state
    last,       \* summary of the most recently completed upsert
    prev,       \* summary of the one before
    nUpserts,   \* upserts started so far in the run
    \* ---- paginated fetch ----
    source,     \* the remote source: page sizes, per-item region flag
    max_pages,  \* the caller's page limit (Azure, GCP)
    fpc,        \* "run" | "returned" | "raised"
    page_count, \* the fetcher's page counter
    next_tok,   \* the cursor the fetcher holds for its next request (0: none)
    items,      \* items collected so far
    reqLog,     \* page requests issued: cursor sent, whether query params were sent
    respLog,    \* cursors returned by the responses (0: none)
    surfaced,   \* what the caller received
    failedAt,   \* number of requests issued for the page that failed (0: none failed)
    \* ---- normalisation ----
    norms,      \* normalize calls made: the first and the latest, item and outcome
    ncalls,     \* number of normalize calls made
    \* ---- grouping, as a function of a list ----
    ginput,     \* a list of reconciled records
    gperm,      \* a permutation of its positions
    gout,       \* the groups of the list and of the permuted list
    \* ---- the run: upload loop and price sets ----
    all_items,  \* the raw items fetched
    rpc,        \* "fetched" | "fetch_raised" | "upload" | "sets" | "done"
    run_i,      \* Azure: items the upload loop has gone through
    cat_i,      \* GCP: the category being processed
    sku_i,      \* GCP: SKUs of that category gone through
    successful_prices,  \* Azure: the prices that obtained an id
    price_ids,  \* GCP: the ids obtained in the current category
    failed_count,       \* Azure: the failure counter
    bundles,    \* price sets submitted, in order
    hist,       \* what happened to each source item processed, in order
    price_set_counts,   \* Azure: <<price_set_success, price_set_failed>>, <<>> before they exist
    summary,    \* Azure: the counts the SYNC SUMMARY block logged, <<>> if it logged none
    result,     \* how the run ended: "True" | "False" (Azure), "completed" | "raised" (GCP)
    \* ---- the price-set exports (AWS_Price_Dump.py, GCP_pricing.py) ----
    products,   \* the products (AWS) or SKUs (GCP) the export received
    price_sets, \* the price sets it returned
    epc,        \* "off" | "run" | "returned"
    \* ---- the approval poller (Auto-Approve.py) ----
    current_time,   \* minutes after midnight when main() runs
    START_TIME,     \* the configured window, minutes after midnight
    END_TIME,
    approvals,  \* the approvals of the server: id, items, whether its details can be fetched
    ppc,        \* "off" | "start" | "list" | "approval" | "items" | "end"
    pending_approvals,  \* what get_pending_approvals returned
    app_i,      \* approvals the loop has gone through
    approval_items,     \* the items of the approval being processed
    item_i,     \* items of it gone through
    calls,      \* the requests sent to the approvals API, in order
    \* ---- the RDS version server (fetch_rds_versions.py) ----
    rds_versions,   \* the global: a reference to a list object of the heap
    heap,       \* the list objects allocated so far, by reference
    vpc,        \* fetch_rds_versions: "off" | "idle" | "ran" | "parsed"
    fetch_stdout,   \* result.stdout of the fetch in progress
    fetch_parsed,   \* the reference json.loads returned, not yet stored
    nfetch,     \* calls of fetch_rds_versions started
    serving,    \* run_server() has been reached
    flog,       \* how each fetch ended, in order, with the list it parsed
    hpc,        \* do_GET: "idle" | "encoding"
    h_ref,      \* the reference do_GET loaded from the global
    h_i,        \* entries of that list encoded so far
    h_buf,      \* their encodings
    h_seen,     \* what the global held and how many fetches had ended at the load
    nreq,       \* requests received
    responses,  \* the responses written, in order
    \* ---- the order of the stages of a sync run ----
    tpc,        \* "off" | "run" | "done"
    svc_i,      \* fetch calls (service and region, or the one GCP call) completed
    page_i,     \* pages requested in the fetch call in progress
    fetched_n,  \* source items collected
    up_i,       \* source items the upload loop has gone through
    ok_n,       \* of them, those that obtained an id
    sets_n,     \* price sets submitted
    trace       \* the requests issued, in order: to the source or to the destination

rvars == <<catalog, nextId, pc, cur, attempt, alog, slept, areq, last, prev, nUpserts>>
fvars == <<source, max_pages, fpc, page_count, next_tok, items, reqLog, respLog,
           surfaced, failedAt>>
nvars == <<norms, ncalls>>
gvars == <<ginput, gperm, gout>>
uvars == <<all_items, rpc, run_i, cat_i, sku_i, successful_prices, price_ids,
           failed_count, bundles, hist, price_set_counts, summary, result>>
evars == <<products, price_sets, epc>>
pvars == <<current_time, START_TIME, END_TIME, approvals, ppc, pending_approvals,
           app_i, approval_items, item_i, calls>>
svars == <<rds_versions, heap, vpc, fetch_stdout, fetch_parsed, nfetch, serving,
           flog, hpc, h_ref, h_i, h_buf, h_seen, nreq, responses>>
tvars == <<tpc, svc_i, page_i, fetched_n, up_i, ok_n, sets_n, trace>>
yvars == <<svars, tvars>>
ovars == <<evars, pvars, yvars>>
xvars == <<nvars, gvars, uvars, ovars>>
vars == <<variant, rvars, fvars, xvars>>

\* the normalisation state is at rest while another machine runs
NormalizeAtRest ==
    /\ norms = <<>>
    /\ ncalls = 0

\* no list is being grouped
GroupAtRest ==
    /\ ginput = <<>>
    /\ gperm = <<>>
    /\ gout = <<>>

\* no run is in progress
RunAtRest ==
    /\ all_items = <<>>
    /\ rpc = "off"
    /\ run_i = 0
    /\ cat_i = 0
    /\ sku_i = 0
    /\ successful_prices = <<>>
    /\ price_ids = <<>>
    /\ failed_count = 0
    /\ bundles = <<>>
    /\ hist = <<>>
    /\ price_set_counts = <<>>
    /\ summary = <<>>
    /\ result = "-"

\* no export is in progress
ExportAtRest ==
    /\ products = <<>>
    /\ price_sets = <<>>
    /\ epc = "off"

\* the approval poller is not running
PollerAtRest ==
    /\ current_time = 0
    /\ START_TIME = 0
    /\ END_TIME = 0
    /\ approvals = <<>>
    /\ ppc = "off"
    /\ pending_approvals = <<>>
    /\ app_i = 0
    /\ approval_items = <<>>
    /\ item_i = 0
    /\ calls = <<>>

\* no HTTP exchange is taking place
NoSeen == [before |-> <<>>, at |-> 0]

\* the version server is not running
VersionsAtRest ==
    /\ rds_versions = 0
    /\ heap = <<>>
    /\ vpc = "off"
    /\ fetch_stdout = <<>>
    /\ fetch_parsed = 0
    /\ nfetch = 0
    /\ serving = FALSE
    /\ flog = <<>>
    /\ hpc = "off"
    /\ h_ref = 0
    /\ h_i = 0
    /\ h_buf = <<>>
    /\ h_seen = NoSeen
    /\ nreq = 0
    /\ responses = <<>>

\* no staged run is being followed
StagesAtRest ==
    /\ tpc = "off"
    /\ svc_i = 0
    /\ page_i = 0
    /\ fetched_n = 0
    /\ up_i = 0
    /\ ok_n = 0
    /\ sets_n = 0
    /\ trace = <<>>

OthersAtRest == ExportAtRest /\ PollerAtRest /\ VersionsAtRest /\ StagesAtRest

----------------------------------------------------------------------------
(* Bounds of the model *)
MaxUpserts == 3

(* Program constants *)
MAX_RETRIES == 3
max_retries == 3
\* REQUEST_DELAY = 0.2 and retry_delay=1 seconds, in tenths of a second
REQUEST_DELAY == 2
retry_delay == 10

SkuIds == {"m1", "m2"}
Regions == {"eastus"}
Items == [id : SkuIds, region : Regions]

----------------------------------------------------------------------------
(* Normalisation: the price code *)

\* str.lower() on the prefixes the scripts configure
Lower(s) == CASE s = "Aswath" -> "aswath" [] OTHER -> s

PRICE_PREFIX == "aswath"
price_prefix == "Aswath"

\* f"{self.prefix.lower()}.azure.{meter_id}.{region_name}"
AzureCode(item) == <<Lower(PRICE_PREFIX), "azure", item.id, item.region>>
\* mutant: the code also carries the description
GcpCode_WithDescription(item) ==
    <<Lower(price_prefix), "google", item.id, item.region, item.description>>
\* f"{price_prefix.lower()}.google.{sku['skuId']}.{region}"
GcpCode(item) == <<Lower(price_prefix), "google", item.id, item.region>>

Code(v, item) == IF v = "azure" THEN AzureCode(item) ELSE GcpCode(item)

----------------------------------------------------------------------------
(* The destination catalog (Morpheus /api/prices) *)

\* GET /api/prices?code=<code>: the records carrying the code, in catalog order
Matching(cat, code) ==
    LET Test(r) == r.code = code IN SelectSeq(cat, Test)

CountCode(cat, code) == Len(Matching(cat, code))

\* What one HTTP attempt can come back with.  "transient": network error or
\* 5xx; "permanent": 4xx; "reject": 200 with success = false; "ok_nested":
\* the new id under price.id; "ok_noid": success without an id.
GetOutcomes == {"ok", "transient", "permanent"}
PutOutcomes == {"ok", "reject", "transient", "permanent"}
PostOutcomes == {"ok", "ok_nested", "ok_noid", "reject", "transient", "permanent"}

\* response.raise_for_status() passes (no RequestException)
HttpOk(o) == o \notin {"transient", "permanent"}

\* POST /api/prices stores a record whenever it answers success
Created(o) == o \in {"ok", "ok_nested", "ok_noid"}

----------------------------------------------------------------------------
(* MorpheusClient._make_request *)

\* Azure: for attempt in range(MAX_RETRIES)
AzureInLoop(att) == att < MAX_RETRIES
\* mutant: gives up one attempt early
AzureRaises_Early(att) == att = MAX_RETRIES - 2
\* Azure: if attempt == MAX_RETRIES - 1: raise
AzureRaises(att) == att = MAX_RETRIES - 1

\* GCP: while retries < self.max_retries
GcpInLoop(retries) == retries < max_retries
\* GCP: retries += 1; if retries == self.max_retries: raise
GcpRaises(retries) == retries + 1 = max_retries

InLoop(v, att) == IF v = "azure" THEN AzureInLoop(att) ELSE GcpInLoop(att)

\* except requests.exceptions.RequestException: every HTTPError, 4xx as 5xx
Caught(o) == ~HttpOk(o)

\* One pass of the loop body on outcome o: "returned" (return response),
\* "raised" (re-raise), "retry" (sleep, next pass), "none" (the loop ends and
\* the function returns None, on which the caller's response.json() throws).
make_request(v, att, o) ==
    IF ~Caught(o) THEN "returned"
    ELSE IF (IF v = "azure" THEN AzureRaises(att) ELSE GcpRaises(att)) THEN "raised"
    ELSE IF InLoop(v, att + 1) THEN "retry"
    ELSE "none"

----------------------------------------------------------------------------
(* create_or_update_price *)

NoCur == [item |-> [id |-> "-", region |-> "-"], code |-> <<>>, lookup |-> "pending",
          found |-> <<>>, target |-> 0, cnt0 |-> 0, clean |-> TRUE,
          methods |-> {}, putIds |-> {}, final |-> "-"]

NoSummary == [item |-> [id |-> "-", region |-> "-"], code |-> <<>>, lookup |-> "pending",
              found |-> <<>>, target |-> 0, cnt0 |-> 0, clean |-> TRUE,
              methods |-> {}, putIds |-> {}, final |-> "-",
              reported |-> 0, raised |-> FALSE, accepted |-> FALSE,
              outcome |-> "none"]

NoReq == [method |-> "-", target |-> 0, state |-> "-"]

\* spec-level outcome of a completed upsert
OutcomeOf(c, accepted) ==
    IF ~accepted THEN "failed"
    ELSE IF "PUT" \in c.methods THEN "updated" ELSE "created"

\* Azure sync_azure_pricing: if price_id: ...   GCP process_pricing_data:
\* if price_response.get('success'): ... if price_id: ...
Accepted(v, id, success, raised) ==
    IF v = "azure" THEN id # 0
    ELSE ~raised /\ success /\ id # 0

Summary(c, id, success, raised) ==
    [item |-> c.item, code |-> c.code, lookup |-> c.lookup, found |-> c.found,
     target |-> c.target, cnt0 |-> c.cnt0, clean |-> c.clean,
     methods |-> c.methods, putIds |-> c.putIds, final |-> c.final,
     reported |-> id, raised |-> raised,
     accepted |-> Accepted(variant, id, success, raised),
     outcome |-> OutcomeOf(c, Accepted(variant, id, success, raised))]

\* what is kept of the upsert before the last one
Brief(s) == [item |-> s.item, code |-> s.code, clean |-> s.clean,
             cnt0 |-> s.cnt0, outcome |-> s.outcome]

\* the upsert returns (or raises) to the run loop
Finish(c, id, success, raised) ==
    /\ last' = Summary(c, id, success, raised)
    /\ prev' = Brief(last)
    /\ cur' = NoCur
    /\ pc' = "idle"
    /\ attempt' = 0

\* cur.methods: the methods of the HTTP attempts made so far in this upsert;
\* cur.final: the outcome of the latest attempt; cur.clean: none has failed.
\* The log of the request being attempted, a new one when the previous
\* request has ended
LogWith(m, o) ==
    Append(IF areq.method = m /\ areq.state = "pending" THEN alog ELSE <<>>, o)

\* Azure: time.sleep(REQUEST_DELAY * (attempt + 1))
AzureDelay(att) == REQUEST_DELAY * (att + 1)
\* GCP: time.sleep(self.retry_delay), retries already incremented
GcpDelay(retries) == retry_delay

\* the delays slept so far inside the request being attempted, a new list
\* when the previous request has ended; a pass that retries sleeps once
SleptWith(m, v, att, res) ==
    LET before == IF areq.method = m /\ areq.state = "pending" THEN slept ELSE <<>>
    IN  IF res = "retry"
        THEN Append(before, IF v = "azure" THEN AzureDelay(att) ELSE GcpDelay(att + 1))
        ELSE before

Note(c, m, o) ==
    [c EXCEPT !.methods = @ \cup {m},
              !.final = o,
              !.clean = @ /\ o \in {"ok", "ok_nested", "ok_noid"}]

\* the run loop hands the next item to create_or_update_price
StartUpsert ==
    /\ variant \in {"azure", "gcp"}
    /\ pc = "idle"
    /\ nUpserts < MaxUpserts
    /\ \E it \in Items :
         cur' = [NoCur EXCEPT !.item = it,
                              !.code = Code(variant, it),
                              !.cnt0 = CountCode(catalog, Code(variant, it))]
    /\ pc' = "lookup"
    /\ attempt' = 0
    /\ alog' = <<>>
    /\ slept' = <<>>
    /\ areq' = [method |-> "GET", target |-> 0, state |-> "pending"]
    /\ nUpserts' = nUpserts + 1
    /\ UNCHANGED <<variant, catalog, nextId, last, prev, fvars, xvars>>

\* mutant: takes the last record listed instead of the first
search_price_by_code_Last(res, prices) ==
    IF res = "returned" /\ Len(prices) > 0 THEN prices[Len(prices)].id ELSE 0
\* Azure search_price_by_code: prices[0] if prices else None; any exception
\* gives None.  The id of the record found, 0 for None.
search_price_by_code(res, prices) ==
    IF res = "returned" /\ Len(prices) > 0 THEN prices[1].id ELSE 0

\* GCP: if search_data.get('prices') and len(...) > 0: prices[0]['id']
GcpExisting(prices) == IF Len(prices) > 0 THEN prices[1].id ELSE 0

Existing(v, res, prices) ==
    IF v = "azure" THEN search_price_by_code(res, prices) ELSE GcpExisting(prices)

\* Azure create_or_update_price: existing_price = self.search_price_by_code(code);
\* if existing_price: update else: create.  The next request.
AzureAfterLookup(res, prices) ==
    IF search_price_by_code(res, prices) # 0 THEN "put" ELSE "post"

\* mutant: always takes the create branch
GcpAfterLookup_AlwaysCreate(res, prices) ==
    IF res # "returned" THEN "raise" ELSE "post"
\* GCP create_or_update_price: the search is inside the try; a raising
\* search leaves through except RequestException: raise
GcpAfterLookup(res, prices) ==
    IF res # "returned" THEN "raise"
    ELSE IF GcpExisting(prices) # 0 THEN "put" ELSE "post"

AfterLookup(v, res, prices) ==
    IF v = "azure" THEN AzureAfterLookup(res, prices) ELSE GcpAfterLookup(res, prices)

\* one attempt of GET /api/prices?code=..., and what follows it
LookupAttempt ==
    /\ pc = "lookup"
    /\ InLoop(variant, attempt)
    /\ \E o \in GetOutcomes :
         LET res == make_request(variant, attempt, o)
             prices == Matching(catalog, cur.code)
             c0 == Note(cur, "GET", o)
         IN  /\ alog' = LogWith("GET", o)
             /\ slept' = SleptWith("GET", variant, attempt, res)
             /\ IF res = "retry"
                THEN /\ attempt' = attempt + 1
                     /\ areq' = [method |-> "GET", target |-> 0, state |-> "pending"]
                     /\ cur' = c0
                     /\ UNCHANGED <<pc, last, prev>>
                ELSE LET nxt == AfterLookup(variant, res, prices)
                         c1 == [c0 EXCEPT
                                  !.lookup = IF res = "returned" THEN "returned" ELSE "raised",
                                  !.found = IF res = "returned"
                                            THEN [i \in 1..Len(prices) |-> prices[i].id]
                                            ELSE <<>>,
                                  !.target = IF nxt = "put"
                                             THEN Existing(variant, res, prices) ELSE 0]
                     IN  /\ areq' = [method |-> "GET", target |-> 0, state |-> res]
                         /\ IF nxt = "raise"
                            THEN Finish(c1, 0, FALSE, TRUE)
                            ELSE /\ cur' = c1
                                 /\ pc' = nxt
                                 /\ attempt' = 0
                                 /\ UNCHANGED <<last, prev>>
    /\ UNCHANGED <<variant, catalog, nextId, nUpserts, fvars, xvars>>

\* Azure update_price / create_or_update_price: price_id if success else None
AzureUpdateResult(res, o, price_id) ==
    IF res = "returned" /\ o = "ok" THEN price_id ELSE 0

\* mutant: a failed update goes on to the create branch
AzureAfterUpdate_FallsBack(c, reported, success) ==
    IF reported # 0
    THEN Finish(c, reported, success, FALSE)
    ELSE /\ cur' = c
         /\ pc' = "post"
         /\ attempt' = 0
         /\ UNCHANGED <<last, prev>>
\* Azure create_or_update_price, the existing_price branch: success =
\* self.update_price(price_id, price_data); return price_id if success else
\* None.  The upsert ends here whatever the update gave.
AzureAfterUpdate(c, reported, success) ==
    Finish(c, reported, success, FALSE)

\* one attempt of PUT /api/prices/{id}, and what follows it
UpdateAttempt ==
    /\ pc = "put"
    /\ InLoop(variant, attempt)
    /\ \E o \in PutOutcomes :
         LET res == make_request(variant, attempt, o)
             c0 == [Note(cur, "PUT", o) EXCEPT !.putIds = @ \cup {cur.target}]
         IN  /\ alog' = LogWith("PUT", o)
             /\ slept' = SleptWith("PUT", variant, attempt, res)
             /\ CASE res = "retry" ->
                       /\ attempt' = attempt + 1
                       /\ areq' = [method |-> "PUT", target |-> cur.target, state |-> "pending"]
                       /\ cur' = c0
                       /\ UNCHANGED <<pc, last, prev>>
                  [] res = "returned" ->
                       /\ areq' = [method |-> "PUT", target |-> cur.target, state |-> "returned"]
                       /\ IF variant = "azure"
                          THEN AzureAfterUpdate(c0, AzureUpdateResult(res, o, cur.target), o = "ok")
                          ELSE Finish(c0, cur.target, o = "ok", FALSE)
                  [] OTHER ->
                       /\ areq' = [method |-> "PUT", target |-> cur.target, state |-> res]
                       /\ IF variant = "azure"
                          THEN AzureAfterUpdate(c0, AzureUpdateResult(res, o, cur.target), FALSE)
                          ELSE Finish(c0, 0, FALSE, TRUE)
    /\ UNCHANGED <<variant, catalog, nextId, nUpserts, fvars, xvars>>

\* Azure create_price: result.get('id') or result.get('price', {}).get('id')
\* when success, else None
create_price(res, o, newId) ==
    IF res = "returned" /\ o \in {"ok", "ok_nested"} THEN newId ELSE 0

\* GCP: if resp_data.get('success') and resp_data.get('id'): price_id = id
GcpCreatedId(o, newId) == IF o = "ok" THEN newId ELSE 0

\* one attempt of POST /api/prices, and what follows it
CreateAttempt ==
    /\ pc = "post"
    /\ InLoop(variant, attempt)
    /\ \E o \in PostOutcomes :
         LET res == make_request(variant, attempt, o)
             c0 == Note(cur, "POST", o)
         IN  /\ alog' = LogWith("POST", o)
             /\ slept' = SleptWith("POST", variant, attempt, res)
             /\ IF Created(o)
                THEN /\ catalog' = Append(catalog, [id |-> nextId, code |-> cur.code])
                     /\ nextId' = nextId + 1
                ELSE UNCHANGED <<catalog, nextId>>
             /\ CASE res = "retry" ->
                       /\ attempt' = attempt + 1
                       /\ areq' = [method |-> "POST", target |-> 0, state |-> "pending"]
                       /\ cur' = c0
                       /\ UNCHANGED <<pc, last, prev>>
                  [] res = "returned" ->
                       /\ areq' = [method |-> "POST", target |-> 0, state |-> "returned"]
                       /\ IF variant = "azure"
                          THEN Finish(c0, create_price(res, o, nextId), Created(o), FALSE)
                          ELSE Finish(c0, GcpCreatedId(o, nextId), Created(o), FALSE)
                  [] OTHER ->
                       /\ areq' = [method |-> "POST", target |-> 0, state |-> res]
                       /\ IF variant = "azure"
                          THEN Finish(c0, create_price(res, o, nextId), FALSE, FALSE)
                          ELSE Finish(c0, 0, FALSE, TRUE)
    /\ UNCHANGED <<variant, nUpserts, fvars, xvars>>

----------------------------------------------------------------------------
(* Claims about the reconcile machine (SpecReconcile) *)

Completed(s) == s.outcome # "none"

UpdatePathOnly(s) ==
    /\ "POST" \notin s.methods
    /\ s.putIds \subseteq {s.found[1]}

\* C2: once the lookup has returned at least one record, the upsert PUTs to
\* the id of the first record returned and never POSTs; when the PUT
\* succeeds the upsert reports that same id and its outcome is updated.
C2_ExistingIsUpdated ==
    /\ ( cur.lookup = "returned" /\ Len(cur.found) >= 1 )
       => /\ pc = "put"
          /\ cur.target = cur.found[1]
          /\ UpdatePathOnly(cur)
    /\ ( Completed(last) /\ last.lookup = "returned" /\ Len(last.found) >= 1 )
       => /\ UpdatePathOnly(last)
          /\ last.putIds = {last.found[1]}
          /\ (last.final = "ok" => /\ last.reported = last.found[1]
                                   /\ last.outcome = "updated")

\* C2 witness: an update of a record that existed, the lookup having
\* returned two records with the code
C2_Witness ==
    /\ Completed(last)
    /\ Len(last.found) >= 2
    /\ last.final = "ok"
    /\ last.outcome = "updated"

\* C3: a POST is attempted only in an upsert whose lookup returned, with no
\* record; an upsert whose lookup raised makes no POST and is reported as
\* failed, and no code ever has two records.
C3_CreateOnlyAfterEmptyLookup ==
    /\ \A s \in {cur, last} :
         "POST" \in s.methods => (s.lookup = "returned" /\ s.found = <<>>)
    /\ ( Completed(last) /\ last.lookup = "raised" )
       => (last.methods = {"GET"} /\ last.outcome = "failed")
    /\ \A i, j \in 1..Len(catalog) : catalog[i].code = catalog[j].code => i = j

Failed(o) == o \in {"transient", "permanent"}

RetriesOf(v) == IF v = "azure" THEN MAX_RETRIES ELSE max_retries

\* C4: a request that has ended either raised after exactly MAX_RETRIES
\* attempts, all failed, or returned on its first attempt that did not fail,
\* at most the MAX_RETRIES-th; a request still pending has fewer than
\* MAX_RETRIES attempts, all failed; the retry loop never ends otherwise.
C4_RetryBound ==
    /\ areq.state # "none"
    /\ areq.state = "raised"
       => /\ Len(alog) = RetriesOf(variant)
          /\ \A i \in 1..Len(alog) : Failed(alog[i])
    /\ areq.state = "returned"
       => /\ Len(alog) \in 1..RetriesOf(variant)
          /\ ~Failed(alog[Len(alog)])
          /\ \A i \in 1..(Len(alog) - 1) : Failed(alog[i])
    /\ areq.state = "pending"
       => /\ Len(alog) < RetriesOf(variant)
          /\ \A i \in 1..Len(alog) : Failed(alog[i])

\* C4 witness: a write that raised after MAX_RETRIES failed attempts
C4_Witness ==
    /\ areq.state = "raised"
    /\ areq.method = "POST"
    /\ Len(alog) = RetriesOf(variant)

\* C7: a permanent rejection (4xx) ends the request at once: it is the last
\* attempt of its request and the request has raised.
C7_PermanentNotRetried ==
    \A i \in 1..Len(alog) :
        alog[i] = "permanent" => (i = Len(alog) /\ areq.state = "raised")

----------------------------------------------------------------------------
(* The fetch state is at rest while the reconcile machine runs *)

NoSource == [sizes |-> <<>>, outOfRegion |-> {}]

FetchAtRest ==
    /\ source = NoSource
    /\ max_pages = 0
    /\ fpc = "off"
    /\ page_count = 0
    /\ next_tok = 0
    /\ items = <<>>
    /\ reqLog = <<>>
    /\ respLog = <<>>
    /\ surfaced = <<>>
    /\ failedAt = 0

\* the PUT of upsert s succeeded
UpdateSucceeded(s) == "PUT" \in s.methods /\ s.final = "ok"

\* C36: in the Azure client, an upsert whose lookup found an existing record
\* never issues a POST, while it runs and after it has ended; when its PUT
\* failed it reports failure (no id) and the number of destination records
\* of its code is what it was when the upsert started.
C36_UpdateNeverCreates ==
    variant = "azure" =>
      /\ ( cur.lookup = "returned" /\ Len(cur.found) >= 1 )
         => ("POST" \notin cur.methods /\ pc = "put")
      /\ ( Completed(last) /\ last.lookup = "returned" /\ Len(last.found) >= 1 )
         => /\ "POST" \notin last.methods
            /\ "PUT" \in last.methods
            /\ ~UpdateSucceeded(last)
               => /\ last.reported = 0
                  /\ last.outcome = "failed"
                  /\ pc = "idle" => CountCode(catalog, last.code) = last.cnt0

\* C36 witness: an Azure upsert found a record, its PUT failed on every
\* attempt and the upsert has ended
C36_Witness ==
    /\ variant = "azure"
    /\ pc = "idle"
    /\ Completed(last)
    /\ Len(last.found) >= 1
    /\ last.methods = {"GET", "PUT"}
    /\ last.final \in {"transient", "permanent"}
    /\ areq.state = "raised"
    /\ last.cnt0 = 1

BaseDelay(v) == IF v = "azure" THEN REQUEST_DELAY ELSE retry_delay

\* C33: the delay slept after the k-th failed attempt of a request is
\* baseDelay x k (so successive delays strictly grow), one delay is slept
\* after every failed attempt but the final one, and none after the final
\* failed attempt.
C33_LinearBackoff ==
    /\ \A k \in 1..Len(slept) : slept[k] = BaseDelay(variant) * k
    /\ \A k \in 1..(Len(slept) - 1) : slept[k] < slept[k + 1]
    /\ Len(slept) <= RetriesOf(variant) - 1
    /\ areq.state = "pending" => Len(slept) = Len(alog)
    /\ areq.state \in {"raised", "returned"} => Len(slept) = Len(alog) - 1

\* initial catalogs: at most one record per code (the destination's code index)
InitCatalogs ==
    { <<>> } \cup
    { <<[id |-> 1, code |-> Code(v, it)]>> : v \in {"azure", "gcp"}, it \in Items } \cup
    { <<[id |-> 1, code |-> Code(v, a)], [id |-> 2, code |-> Code(v, b)]>> :
        v \in {"azure", "gcp"}, a \in Items, b \in Items }

InitReconcile ==
    /\ variant \in {"azure", "gcp"}
    /\ catalog \in { c \in InitCatalogs :
                       /\ \A i \in 1..Len(c) : c[i].code[2] = (IF variant = "azure" THEN "azure" ELSE "google")
                       /\ \A i, j \in 1..Len(c) : c[i].code = c[j].code => i = j }
    /\ nextId = Len(catalog) + 1
    /\ pc = "idle"
    /\ cur = NoCur
    /\ attempt = 0
    /\ alog = <<>>
    /\ slept = <<>>
    /\ areq = NoReq
    /\ last = NoSummary
    /\ prev = Brief(NoSummary)
    /\ nUpserts = 0
    /\ FetchAtRest
    /\ NormalizeAtRest
    /\ GroupAtRest
    /\ RunAtRest
    /\ OthersAtRest

NextReconcile ==
    \/ StartUpsert
    \/ LookupAttempt
    \/ UpdateAttempt
    \/ CreateAttempt

SpecReconcile == InitReconcile /\ [][NextReconcile]_vars

----------------------------------------------------------------------------
(* The paged source and the three fetchers *)

(* Bounds of the model *)
MaxSourcePages == 3
PageSize == 2
MaxPageLimit == 2

\* the items the source holds on page p: <<p, 1>> .. <<p, sizes[p]>>
PageItems(src, p) == [i \in 1..src.sizes[p] |-> <<p, i>>]

\* the cursor the response to page p carries: the next page, 0 when the
\* page is the last (NextPageLink / nextPageToken / NextToken absent)
CursorAfter(src, p) == IF p < Len(src.sizes) THEN p + 1 ELSE 0

\* the page a request asks for: the first without a cursor
PageOf(c) == IF c = 0 THEN 1 ELSE c

RECURSIVE Concat(_, _)
\* the items of pages 1..n of the source, in page order
Concat(src, n) ==
    IF n = 0 THEN <<>> ELSE Concat(src, n - 1) \o PageItems(src, n)

\* Azure: next_url = self.base_url before the first request
BaseUrl == -1

\* mutant: every request is the first one again
AzureRequest_NoCursor(count, next_url) == [cursor |-> 0, params |-> TRUE]
\* Azure: the first get carries params and the base url, the later ones the
\* NextPageLink alone.  The request: cursor sent, params sent.
AzureRequest(count, next_url) ==
    IF count = 0 THEN [cursor |-> 0, params |-> TRUE]
    ELSE [cursor |-> next_url, params |-> FALSE]

\* mutant: one page too many
AzureContinues_OffByOne(next_url, count, limit) == next_url # 0 /\ count <= limit
\* Azure: while next_url and page_count < max_pages
AzureContinues(next_url, count, limit) == next_url # 0 /\ count < limit

\* one pass of the loop of AzurePricingClient._fetch_paginated_data; the
\* return to fetch_service_pricing (all_items.extend(items)) when it ends
AzureFetchPage ==
    /\ variant = "azure"
    /\ fpc = "run"
    /\ AzureContinues(next_tok, page_count, max_pages)
    /\ LET rq == AzureRequest(page_count, next_tok)
           p == PageOf(rq.cursor)
       IN  /\ reqLog' = Append(reqLog, rq)
           /\ \E ok \in BOOLEAN :
                IF ok
                THEN /\ items' = items \o PageItems(source, p)
                     /\ next_tok' = CursorAfter(source, p)
                     /\ page_count' = page_count + 1
                     /\ respLog' = Append(respLog, CursorAfter(source, p))
                     /\ IF AzureContinues(next_tok', page_count', max_pages)
                        THEN UNCHANGED <<fpc, surfaced>>
                        ELSE /\ fpc' = "returned"
                             /\ surfaced' = items'
                     /\ UNCHANGED failedAt
                ELSE \* except RequestException: logger.error; break; return items
                     /\ fpc' = "returned"
                     /\ surfaced' = items
                     /\ failedAt' = Cardinality({i \in 1..Len(reqLog') : reqLog'[i] = rq})
                     /\ UNCHANGED <<items, next_tok, page_count, respLog>>
    /\ UNCHANGED <<variant, source, max_pages, rvars, xvars>>

\* GCP _is_valid_sku: self.region in sku.get('serviceRegions', [])
is_valid_sku(src, it) == it[2] \notin src.outOfRegion

\* GCP: params['pageToken'] is sent once it has been set
GcpRequest(pageToken) == [cursor |-> pageToken, params |-> TRUE]

\* GCP: while page_count <= max_pages
GcpContinues(count, limit) == count <= limit

\* one pass of the loop of GCPPricingClient.get_all_skus, and the return
GcpFetchPage ==
    /\ variant = "gcp"
    /\ fpc = "run"
    /\ GcpContinues(page_count, max_pages)
    /\ LET rq == GcpRequest(next_tok)
           p == PageOf(rq.cursor)
           Valid(it) == is_valid_sku(source, it)
       IN  /\ reqLog' = Append(reqLog, rq)
           /\ \E ok \in BOOLEAN :
                IF ok
                THEN /\ items' = items \o SelectSeq(PageItems(source, p), Valid)
                     /\ respLog' = Append(respLog, CursorAfter(source, p))
                     /\ IF CursorAfter(source, p) = 0
                        THEN \* if 'nextPageToken' not in data: break
                             /\ fpc' = "returned"
                             /\ surfaced' = items'
                             /\ UNCHANGED <<next_tok, page_count>>
                        ELSE /\ next_tok' = CursorAfter(source, p)
                             /\ page_count' = page_count + 1
                             /\ IF GcpContinues(page_count', max_pages)
                                THEN UNCHANGED <<fpc, surfaced>>
                                ELSE /\ fpc' = "returned"
                                     /\ surfaced' = items'
                     /\ UNCHANGED failedAt
                ELSE \* except RequestException: logger.error; raise
                     /\ fpc' = "raised"
                     /\ failedAt' = Cardinality({i \in 1..Len(reqLog') : reqLog'[i] = rq})
                     /\ UNCHANGED <<items, next_tok, page_count, respLog, surfaced>>
    /\ UNCHANGED <<variant, source, max_pages, rvars, xvars>>

\* AWS: if next_token: kwargs['NextToken'] = next_token
AwsRequest(next_token) == [cursor |-> next_token, params |-> TRUE]

\* one pass of the while True loop of get_products (no page limit, no
\* try: an error of get_products leaves the function), and the return
AwsFetchPage ==
    /\ variant = "aws"
    /\ fpc = "run"
    /\ LET rq == AwsRequest(next_tok)
           p == PageOf(rq.cursor)
       IN  /\ reqLog' = Append(reqLog, rq)
           /\ \E ok \in BOOLEAN :
                IF ok
                THEN /\ items' = items \o PageItems(source, p)
                     /\ next_tok' = CursorAfter(source, p)
                     /\ respLog' = Append(respLog, CursorAfter(source, p))
                     /\ page_count' = page_count + 1
                     /\ IF next_tok' = 0
                        THEN /\ fpc' = "returned"
                             /\ surfaced' = items'
                        ELSE UNCHANGED <<fpc, surfaced>>
                     /\ UNCHANGED failedAt
                ELSE /\ fpc' = "raised"
                     /\ failedAt' = Cardinality({i \in 1..Len(reqLog') : reqLog'[i] = rq})
                     /\ UNCHANGED <<items, next_tok, page_count, respLog, surfaced>>
    /\ UNCHANGED <<variant, source, max_pages, rvars, xvars>>

ReconcileAtRest ==
    /\ catalog = <<>>
    /\ nextId = 1
    /\ pc = "off"
    /\ cur = NoCur
    /\ attempt = 0
    /\ alog = <<>>
    /\ slept = <<>>
    /\ areq = NoReq
    /\ last = NoSummary
    /\ prev = Brief(NoSummary)
    /\ nUpserts = 0

Sources(v) ==
    { [sizes |-> sz, outOfRegion |-> out] :
        sz \in UNION { [1..n -> 0..PageSize] : n \in 1..MaxSourcePages },
        out \in IF v = "gcp" THEN SUBSET (1..PageSize) ELSE {{}} }

InitFetch ==
    /\ variant \in {"azure", "gcp", "aws"}
    /\ source \in Sources(variant)
    /\ max_pages \in 1..MaxPageLimit
    /\ fpc = "run"
    /\ page_count = IF variant = "gcp" THEN 1 ELSE 0
    /\ next_tok = IF variant = "azure" THEN BaseUrl ELSE 0
    /\ items = <<>>
    /\ reqLog = <<>>
    /\ respLog = <<>>
    /\ surfaced = <<>>
    /\ failedAt = 0
    /\ ReconcileAtRest
    /\ NormalizeAtRest
    /\ GroupAtRest
    /\ RunAtRest
    /\ OthersAtRest

NextFetch ==
    \/ AzureFetchPage
    \/ GcpFetchPage
    \/ AwsFetchPage

SpecFetch == InitFetch /\ [][NextFetch]_vars

----------------------------------------------------------------------------
(* Claims about the fetchers (SpecFetch) *)

\* C5: a page request that failed, ending the fetch, had been attempted
\* MAX_RETRIES times.
C5_PageRequestRetried ==
    failedAt # 0 => failedAt = MAX_RETRIES

\* C6: a fetch in which a page request failed after items had been
\* retrieved fails as a whole and hands none of those items to its caller.
C6_AllOrNothing ==
    (fpc # "run" /\ failedAt # 0 /\ items # <<>>)
    => (fpc = "raised" /\ surfaced = <<>>)

\* C8: the first page request carries the query parameters and no cursor,
\* and request k+1 carries the cursor returned by response k.
C8_CursorThreading ==
    /\ Len(reqLog) >= 1 => (reqLog[1].cursor = 0 /\ reqLog[1].params)
    /\ \A k \in 1..(Len(reqLog) - 1) :
         /\ k <= Len(respLog)
         /\ respLog[k] # 0
         /\ reqLog[k + 1].cursor = respLog[k]

\* C8 witness: the Azure fetcher has sent a second request, with the cursor
\* of the first response
C8_Witness ==
    /\ variant = "azure"
    /\ Len(reqLog) >= 2
    /\ reqLog[2].cursor = respLog[1]
    /\ respLog[1] = 2

\* C9: no fetch issues more than max_pages page requests; a response
\* without a cursor ends the fetch; a fetch that ended on its page limit
\* without a failed request has returned normally.
C9_BoundedPages ==
    /\ Len(reqLog) <= max_pages
    /\ (respLog # <<>> /\ respLog[Len(respLog)] = 0) => fpc # "run"
    /\ (fpc # "run" /\ Len(respLog) = max_pages /\ failedAt = 0) => fpc = "returned"

MinOf(a, b) == IF a < b THEN a ELSE b

----------------------------------------------------------------------------
(* Texts: Python str operations on the spelling of a text *)

\* an attribute the raw item does not carry
Absent == "<absent>"

\* dict.get(key, default)
dict_get(v, default) == IF v = Absent THEN default ELSE v

UpperCase == <<"A", "B", "C", "D", "E", "F", "G", "H", "I", "J", "K", "L", "M",
               "N", "O", "P", "Q", "R", "S", "T", "U", "V", "W", "X", "Y", "Z">>
LowerCase == <<"a", "b", "c", "d", "e", "f", "g", "h", "i", "j", "k", "l", "m",
               "n", "o", "p", "q", "r", "s", "t", "u", "v", "w", "x", "y", "z">>
DigitChars == {"0", "1", "2", "3", "4", "5", "6", "7", "8", "9"}

\* the characters of the texts the model draws attributes from
Chars(s) ==
  CASE s = " "                    -> <<" ">>
    [] s = " - "                  -> <<" ", "-", " ">>
    [] s = "_"                    -> <<"_">>
    [] s = "Virtual Machines"     ->
         <<"V", "i", "r", "t", "u", "a", "l", " ", "M", "a", "c", "h", "i", "n", "e", "s">>
    [] s = "Storage"              -> <<"S", "t", "o", "r", "a", "g", "e">>
    [] s = "Bandwidth"            -> <<"B", "a", "n", "d", "w", "i", "d", "t", "h">>
    [] s = "D2s v3 Windows"       ->
         <<"D", "2", "s", " ", "v", "3", " ", "W", "i", "n", "d", "o", "w", "s">>
    [] s = "D2s v3"               -> <<"D", "2", "s", " ", "v", "3">>
    [] s = "Premium SSD"          -> <<"P", "r", "e", "m", "i", "u", "m", " ", "S", "S", "D">>
    [] s = "4 vCPU"               -> <<"4", " ", "v", "C", "P", "U">>
    [] s = "16 GiB RAM"           -> <<"1", "6", " ", "G", "i", "B", " ", "R", "A", "M">>
    [] s = "Dv3 Series Windows"   ->
         <<"D", "v", "3", " ", "S", "e", "r", "i", "e", "s", " ", "W", "i", "n", "d", "o", "w", "s">>
    [] s = "Managed Disks"        ->
         <<"M", "a", "n", "a", "g", "e", "d", " ", "D", "i", "s", "k", "s">>
    [] s = "Blob Storage - Hot"   ->
         <<"B", "l", "o", "b", " ", "S", "t", "o", "r", "a", "g", "e", " ", "-", " ", "H", "o", "t">>
    [] s = "1 Hour"               -> <<"1", " ", "H", "o", "u", "r">>
    [] s = "1/Month"              -> <<"1", "/", "M", "o", "n", "t", "h">>
    [] s = "1 GB/MONTH"           -> <<"1", " ", "G", "B", "/", "M", "O", "N", "T", "H">>
    [] s = "US East"              -> <<"U", "S", " ", "E", "a", "s", "t">>
    [] s = "EU West"              -> <<"E", "U", " ", "W", "e", "s", "t">>
    [] s = "0.192"                -> <<"0", ".", "1", "9", "2">>
    [] s = "aswath"               -> <<"a", "s", "w", "a", "t", "h">>
    [] s = "windows"              -> <<"w", "i", "n", "d", "o", "w", "s">>
    [] s = "linux"                -> <<"l", "i", "n", "u", "x">>
    [] s = "storage"              -> <<"s", "t", "o", "r", "a", "g", "e">>
    [] s = "disk"                 -> <<"d", "i", "s", "k">>
    [] s = "blob"                 -> <<"b", "l", "o", "b">>
    [] s = "file"                 -> <<"f", "i", "l", "e">>
    [] s = "ram"                  -> <<"r", "a", "m">>
    [] s = "memory"               -> <<"m", "e", "m", "o", "r", "y">>
    [] s = "core"                 -> <<"c", "o", "r", "e">>
    [] s = "cpu"                  -> <<"c", "p", "u">>
    [] s = "vcpu"                 -> <<"v", "c", "p", "u">>
    [] s = "sql"                  -> <<"s", "q", "l">>
    [] s = "database"             -> <<"d", "a", "t", "a", "b", "a", "s", "e">>
    [] s = "mysql"                -> <<"m", "y", "s", "q", "l">>
    [] s = "postgresql"           -> <<"p", "o", "s", "t", "g", "r", "e", "s", "q", "l">>
    [] s = "month"                -> <<"m", "o", "n", "t", "h">>
    [] s = "virtual"              -> <<"v", "i", "r", "t", "u", "a", "l">>
    [] s = "compute"              -> <<"c", "o", "m", "p", "u", "t", "e">>
    [] s = "/"                    -> <<"/">>
    [] s = "Compute"              -> <<"C", "o", "m", "p", "u", "t", "e">>
    [] s = "CPU"                  -> <<"C", "P", "U">>
    [] s = "RAM"                  -> <<"R", "A", "M">>
    [] s = "Unknown"              -> <<"U", "n", "k", "n", "o", "w", "n">>
    [] OTHER -> <<>>

lower_char(c) ==
    IF \E i \in 1..26 : UpperCase[i] = c
    THEN LowerCase[CHOOSE i \in 1..26 : UpperCase[i] = c]
    ELSE c

\* str.lower()
str_lower(cs) == [i \in 1..Len(cs) |-> lower_char(cs[i])]

\* the positions at which `kw` occurs in `cs`
Occurrences(kw, cs) ==
    {i \in 1..(Len(cs) - Len(kw) + 1) : SubSeq(cs, i, i + Len(kw) - 1) = kw}

\* `kw in cs`
str_in(kw, cs) == Occurrences(kw, cs) # {}

\* any(keyword in cs for keyword in kws)
any_in(kws, cs) == \E kw \in kws : str_in(Chars(kw), cs)

\* str.split(sep): cut at each occurrence of sep, scanning from the left
RECURSIVE str_split(_, _)
str_split(cs, sep) ==
    IF ~str_in(sep, cs) THEN <<cs>>
    ELSE LET i == CHOOSE i \in Occurrences(sep, cs) :
                      \A j \in Occurrences(sep, cs) : i <= j
         IN <<SubSeq(cs, 1, i - 1)>>
            \o str_split(SubSeq(cs, i + Len(sep), Len(cs)), sep)

\* float(text) succeeds: on the texts of the model, a decimal literal
float_ok(cs) ==
    /\ \E i \in 1..Len(cs) : cs[i] \in DigitChars
    /\ \A i \in 1..Len(cs) : cs[i] \in DigitChars \cup {"."}
    /\ Cardinality({i \in 1..Len(cs) : cs[i] = "."}) <= 1

----------------------------------------------------------------------------
(* Normalisation: raw provider item -> price record *)

\* the outcome of a normalize call: a price record, or the exception raised
Returned(price) == [raised |-> FALSE, exc |-> "-", price |-> price]
Raised(exc) == [raised |-> TRUE, exc |-> exc, price |-> "-"]

\* PricingConverter._get_price_type
Azure_get_price_type(service_name, meter_name, product_name) ==
    LET service_lower == str_lower(Chars(service_name))
        meter_lower == str_lower(Chars(meter_name))
        product_lower == str_lower(Chars(product_name))
    IN  IF any_in({"windows"}, product_lower) THEN "platform"
        ELSE IF any_in({"storage", "disk", "blob", "file"}, service_lower)
        THEN "storage"
        ELSE IF service_name = "Virtual Machines"
        THEN IF any_in({"ram", "memory"}, meter_lower) THEN "memory"
             ELSE IF any_in({"core", "cpu", "vcpu"}, meter_lower) THEN "cores"
             ELSE "compute"
        ELSE IF any_in({"sql", "database", "mysql", "postgresql"}, service_lower)
        THEN "compute"
        ELSE "compute"

\* mutant: reads the platform from the product name alone
Azure_get_platform_ProductOnly(product_name, meter_name) ==
    LET combined == str_lower(Chars(product_name))
    IN  IF str_in(Chars("windows"), combined) THEN "windows"
        ELSE IF str_in(Chars("linux"), combined) THEN "linux"
        ELSE "None"

\* PricingConverter._get_platform
Azure_get_platform(product_name, meter_name) ==
    LET combined == str_lower(Chars(product_name) \o Chars(" ") \o Chars(meter_name))
    IN  IF str_in(Chars("windows"), combined) THEN "windows"
        ELSE IF str_in(Chars("linux"), combined) THEN "linux"
        ELSE "None"

\* mutant: matches "month" without lowering the text
Azure_get_price_unit_CaseSensitive(unit_of_measure, price_type) ==
    LET unit_lower == Chars(unit_of_measure)
    IN  IF price_type = "storage"
        THEN IF str_in(Chars("month"), unit_lower) THEN "month" ELSE "hour"
        ELSE "hour"

\* PricingConverter._get_price_unit
Azure_get_price_unit(unit_of_measure, price_type) ==
    LET unit_lower == str_lower(Chars(unit_of_measure))
    IN  IF price_type = "storage"
        THEN IF str_in(Chars("month"), unit_lower) THEN "month" ELSE "hour"
        ELSE "hour"

\* the price type after the platform adjustment of convert_azure_to_morpheus_price
AzurePriceType(service_name, meter_name, product_name) ==
    LET price_type == Azure_get_price_type(service_name, meter_name, product_name)
        platform == Azure_get_platform(product_name, meter_name)
    IN  IF platform = "windows" /\ price_type = "compute" THEN "platform"
        ELSE price_type

\* PricingConverter.convert_azure_to_morpheus_price
convert_azure_to_morpheus_price(azure_item) ==
    LET service_name == dict_get(azure_item.serviceName, "")
        meter_name == dict_get(azure_item.meterName, "")
        product_name == dict_get(azure_item.productName, "")
        location == dict_get(azure_item.location, "")
        region_name == dict_get(azure_item.region, "")
        meter_id == dict_get(azure_item.id, "")
        unit_of_measure == dict_get(azure_item.unitOfMeasure, "1 Hour")
        price_type == AzurePriceType(service_name, meter_name, product_name)
    IN  IF azure_item.retailPrice # Absent
           /\ ~float_ok(Chars(azure_item.retailPrice))
        THEN Raised("ValueError")
        ELSE Returned(
          [name |-> <<PRICE_PREFIX, product_name, meter_name, location>>,
           code |-> AzureCode([id |-> meter_id, region |-> region_name]),
           priceType |-> price_type,
           priceUnit |-> Azure_get_price_unit(unit_of_measure, price_type),
           price |-> dict_get(azure_item.retailPrice, "0"),
           incurCharges |-> IF price_type = "storage" THEN "always" ELSE "running",
           platform |-> Azure_get_platform(product_name, meter_name)])

\* mutant: a seventh price type for the Network family
Gcp_get_price_type_Network(resource_group, resource_family) ==
    IF resource_family = "Compute"
    THEN CASE resource_group = "CPU" -> "cores"
           [] resource_group = "RAM" -> "memory"
           [] resource_group = "GPU" -> "gpu"
           [] OTHER -> "compute"
    ELSE IF resource_family = "Storage" THEN "storage"
    ELSE IF resource_family = "Network" THEN "network"
    ELSE "compute"

\* _get_price_type of the GCP script: three lookup tables by resource family
Gcp_get_price_type(resource_group, resource_family) ==
    IF resource_family = "Compute"
    THEN CASE resource_group = "CPU" -> "cores"
           [] resource_group = "RAM" -> "memory"
           [] resource_group = "GPU" -> "gpu"
           [] OTHER -> "compute"
    ELSE IF resource_family = "Storage" THEN "storage"
    ELSE "compute"

\* create_price_data: sku.pricingInfo is Absent, "[]" (an empty list),
\* "[{}]" (no tiered rates), "rates" (a first rate with a unitPrice) or
\* "rates-nounit" (a first rate without one)
create_price_data(sku) ==
    IF sku.pricingInfo = "[]" THEN Raised("IndexError")
    ELSE IF sku.pricingInfo = "rates-nounit" THEN Raised("KeyError")
    ELSE IF sku.id = Absent THEN Raised("KeyError")
    ELSE LET resource_family == dict_get(sku.resourceFamily, "")
             resource_group == dict_get(sku.resourceGroup, "")
         IN Returned(
              [name |-> <<price_prefix, dict_get(sku.description, "")>>,
               code |-> GcpCode(sku),
               priceType |-> Gcp_get_price_type(resource_group, resource_family),
               priceUnit |-> "hour",
               price |-> IF sku.pricingInfo = "rates" THEN "units+nanos" ELSE "0",
               incurCharges |-> "running",
               platform |-> "None"])

normalize(v, item) ==
    IF v = "azure" THEN convert_azure_to_morpheus_price(item)
    ELSE create_price_data(item)

----------------------------------------------------------------------------
(* The specification of normalisation: normalize applied to raw items *)

MaxNormalizeCalls == 2

PriceKinds == {"compute", "storage", "memory", "cores", "gpu", "platform"}

\* raw Azure retail-price items: every attribute may be missing
AzureRaw ==
    [id : {"m1", Absent}, region : {"eastus", Absent},
     serviceName : {"Virtual Machines", "Storage", "Bandwidth", Absent},
     meterName : {"D2s v3 Windows", "Premium SSD", "4 vCPU", "16 GiB RAM", Absent},
     productName : {"Dv3 Series Windows", "Managed Disks", Absent},
     location : {"US East"},
     retailPrice : {"0.192", "", Absent},
     unitOfMeasure : {"1 Hour", "1/Month", "1 GB/MONTH", Absent}]

\* the items of the later calls
AzureLater ==
    [id : SkuIds, region : {"eastus", "westus2"},
     serviceName : {"Storage"}, meterName : {"Premium SSD"},
     productName : {"Managed Disks", Absent}, location : {"US East"},
     retailPrice : {"0.192"}, unitOfMeasure : {"1/Month"}]

\* raw GCP SKUs; `region` is the region argument of create_price_data
GcpRaw ==
    [id : {"m1", Absent}, region : Regions,
     description : {"N1 Predefined Instance Core", Absent},
     resourceFamily : {"Compute", "Storage", "Network", "License", Absent},
     resourceGroup : {"CPU", "RAM", "GPU", "SSD", "N1Standard", Absent},
     pricingInfo : {Absent, "[]", "[{}]", "rates", "rates-nounit"}]

GcpLater ==
    [id : SkuIds, region : Regions,
     description : {"N1 Predefined Instance Core", Absent},
     resourceFamily : {"Compute"}, resourceGroup : {"CPU"},
     pricingInfo : {"rates", Absent}]

RawItems(v, n) ==
    IF v = "azure" THEN (IF n = 0 THEN AzureRaw ELSE AzureLater)
    ELSE (IF n = 0 THEN GcpRaw ELSE GcpLater)

\* one normalize call; norms keeps the first call and the latest one
Normalize ==
    /\ ncalls < MaxNormalizeCalls
    /\ \E item \in RawItems(variant, ncalls) :
         norms' = (IF ncalls = 0 THEN <<>> ELSE <<norms[1]>>)
                  \o <<[item |-> item, out |-> normalize(variant, item)]>>
    /\ ncalls' = ncalls + 1
    /\ UNCHANGED <<variant, rvars, fvars, gvars, uvars, ovars>>

InitNormalize ==
    /\ variant \in {"azure", "gcp"}
    /\ norms = <<>>
    /\ ncalls = 0
    /\ ReconcileAtRest
    /\ FetchAtRest
    /\ GroupAtRest
    /\ RunAtRest
    /\ OthersAtRest

NextNormalize == Normalize

SpecNormalize == InitNormalize /\ [][NextNormalize]_vars


----------------------------------------------------------------------------
(* Claims about normalisation *)

\* the first normalize call of the behaviour returned a record
FirstReturned(v) == variant = v /\ ncalls >= 1 /\ ~norms[1].out.raised

\* texts of the model in which a marker occurs, whatever the case of letters
WindowsTexts == {"D2s v3 Windows", "Dv3 Series Windows"}
FamilyTexts == {"Storage", "Managed Disks"}
CoreTexts == {"4 vCPU"}
MemoryTexts == {"16 GiB RAM"}
MonthTexts == {"1/Month", "1 GB/MONTH"}

NameFields(item) == {item.serviceName, item.productName, item.meterName}

\* C12: the price type of an Azure record follows one precedence over the
\* service, product and meter names: "windows" in any of them gives platform;
\* otherwise a storage/disk/blob/file marker in the service name gives
\* storage; otherwise, with no such marker in any name, a cpu/core marker in
\* the meter name gives cores and a ram/memory marker gives memory; a record
\* with no marker in any name is compute.
C12_Precedence ==
    FirstReturned("azure") =>
      LET item == norms[1].item
          kind == norms[1].out.price.priceType
          windows == NameFields(item) \cap WindowsTexts # {}
          family == NameFields(item) \cap FamilyTexts # {}
      IN  /\ windows => kind = "platform"
          /\ (~windows /\ item.serviceName \in FamilyTexts) => kind = "storage"
          /\ (~windows /\ ~family /\ item.meterName \in CoreTexts) => kind = "cores"
          /\ (~windows /\ ~family /\ item.meterName \in MemoryTexts) => kind = "memory"
          /\ (~windows /\ ~family /\ item.meterName \notin CoreTexts \cup MemoryTexts)
               => kind = "compute"

\* the price attributes of a raw item are well-formed: an Azure retailPrice is
\* missing or a number; a GCP pricingInfo is missing or a non-empty list whose
\* first tiered rate, if there is one, has a unitPrice
WellFormed(v, item) ==
    IF v = "azure" THEN item.retailPrice \in {Absent, "0.192"}
    ELSE item.pricingInfo \in {Absent, "[{}]", "rates"}

\* C13 as stated: every raw item that carries its provider identifier,
\* whatever its other attributes, normalizes without an exception to a record
\* with one price type out of the six.
C13_TotalOnAnyItem ==
    (ncalls >= 1 /\ norms[1].item.id # Absent) =>
        /\ ~norms[1].out.raised
        /\ norms[1].out.price.priceType \in PriceKinds

\* C13 (amended): every raw item that carries its provider identifier and
\* whose price attributes are well-formed, whatever its text attributes
\* (missing, empty or any text), normalizes without an exception to a record
\* with one price type out of the six.
C13_TotalOnWellFormed ==
    (ncalls >= 1 /\ norms[1].item.id # Absent
       /\ WellFormed(variant, norms[1].item)) =>
        /\ ~norms[1].out.raised
        /\ norms[1].out.price.priceType \in PriceKinds

C13_Witness ==
    /\ FirstReturned("gcp")
    /\ norms[1].item.id # Absent
    /\ norms[1].item.resourceFamily = "Network"
    /\ norms[1].item.pricingInfo = Absent
    /\ norms[1].out.price.priceType = "compute"

\* C14: the unit of an Azure record is month exactly when its price type is
\* storage and its unitOfMeasure contains "month" in any case of letters, and
\* hour otherwise, a missing unitOfMeasure included; a GCP record, which has
\* no unitOfMeasure, has unit hour.
C14_UnitOfRecord ==
    /\ FirstReturned("azure") =>
         norms[1].out.price.priceUnit =
            (IF norms[1].out.price.priceType = "storage"
                /\ norms[1].item.unitOfMeasure \in MonthTexts
             THEN "month" ELSE "hour")
    /\ FirstReturned("gcp") => norms[1].out.price.priceUnit = "hour"

C14_Witness ==
    /\ FirstReturned("azure")
    /\ norms[1].item.serviceName = "Storage"
    /\ norms[1].item.meterName = "Premium SSD"
    /\ norms[1].item.unitOfMeasure = "1/Month"
    /\ norms[1].out.price.priceType = "storage"
    /\ norms[1].out.price.priceUnit = "month"

\* C15: a Virtual Machines item without product name whose meter name is
\* "D2s v3 Windows" normalizes to price type platform, platform windows and
\* unit hour, whatever its other attributes.
C15_WindowsInMeterOnly ==
    (/\ FirstReturned("azure")
     /\ norms[1].item.serviceName = "Virtual Machines"
     /\ norms[1].item.productName = Absent
     /\ norms[1].item.meterName = "D2s v3 Windows") =>
        /\ norms[1].out.price.priceType = "platform"
        /\ norms[1].out.price.platform = "windows"
        /\ norms[1].out.price.priceUnit = "hour"

C15_Witness ==
    /\ FirstReturned("azure")
    /\ norms[1].item.serviceName = "Virtual Machines"
    /\ norms[1].item.productName = Absent
    /\ norms[1].item.meterName = "D2s v3 Windows"
    /\ norms[1].item.unitOfMeasure = "1/Month"
    /\ norms[1].out.price.priceType = "platform"

\* C17: two normalize calls on items with the same identifier and the same
\* region return records with the same code, whatever the other attributes
\* of the items and whatever was normalized before.
C17_CodeDependsOnKeyOnly ==
    \A i, j \in DOMAIN norms :
        (/\ ~norms[i].out.raised /\ ~norms[j].out.raised
         /\ norms[i].item.id = norms[j].item.id
         /\ norms[i].item.region = norms[j].item.region) =>
            norms[i].out.price.code = norms[j].out.price.code

C17_Witness ==
    /\ ncalls = 2
    /\ ~norms[1].out.raised /\ ~norms[2].out.raised
    /\ norms[1].item.id = norms[2].item.id
    /\ norms[1].item.region = norms[2].item.region
    /\ norms[1].out.price.name # norms[2].out.price.name
    /\ norms[1].out.price.code = norms[2].out.price.code

\* C32: in every normalized price record, incurCharges is "always" exactly
\* when priceKind is storage, and "running" for every other priceKind.
C32_IncurChargesByKind ==
    \A i \in 1..Len(norms) :
        ~norms[i].out.raised =>
            LET price == norms[i].out.price
            IN  /\ price.incurCharges \in {"always", "running"}
                /\ price.incurCharges = "always" <=> price.priceType = "storage"

----------------------------------------------------------------------------
(* Grouping of reconciled prices into price sets *)

\* f"{self.prefix} - {product_name} - {meter_name} - {location}"
NameText(name) ==
    Chars(name[1]) \o Chars(" - ") \o Chars(name[2]) \o Chars(" - ")
      \o Chars(name[3]) \o Chars(" - ") \o Chars(name[4])

\* group_prices_for_price_sets: name_parts = name.split(' - ');
\* group_key = f"{name_parts[1]}_{name_parts[-1]}" (<<>> when fewer than 4 parts)
group_key_of_name(name) ==
    LET name_parts == str_split(NameText(name), Chars(" - "))
    IN  IF Len(name_parts) >= 4
        THEN name_parts[2] \o Chars("_") \o name_parts[Len(name_parts)]
        ELSE <<>>

\* the names of the prices that reach the grouping
PriceNames ==
    { <<PRICE_PREFIX, p, "Premium SSD", l>> :
        p \in {"Managed Disks", "Blob Storage - Hot"}, l \in {"US East", "EU West"} }

\* the group key of each of them, computed once
GroupKeys == { [name |-> n, key |-> group_key_of_name(n)] : n \in PriceNames }

AzureGroupKey(name) == (CHOOSE g \in GroupKeys : g.name = name).key

\* process_pricing_data: f"{resourceFamily or 'Unknown'}/{resourceGroup or 'Unknown'}"
GcpCategoryKey(sku) ==
    <<dict_get(sku.resourceFamily, "Unknown"), "/",
      dict_get(sku.resourceGroup, "Unknown")>>

\* mutant: a later record of a group replaces the list of the group
AddToGroup_Overwrite(groups, group_key, id, pos) ==
    LET at == {i \in 1..Len(groups) : groups[i].key = group_key}
    IN  IF at = {}
        THEN Append(groups, [key |-> group_key, prices |-> <<id>>, members |-> <<pos>>])
        ELSE LET i == CHOOSE i \in at : TRUE
             IN  [groups EXCEPT ![i].prices = <<id>>, ![i].members = <<pos>>]
\* mutant: keeps each list sorted by id
AddToGroup_Sorted(groups, group_key, id, pos) ==
    LET at == {i \in 1..Len(groups) : groups[i].key = group_key}
        Below(g) == Cardinality({k \in 1..Len(g.prices) : g.prices[k] < id})
        Insert(seq, n, x) == SubSeq(seq, 1, n) \o <<x>> \o SubSeq(seq, n + 1, Len(seq))
    IN  IF at = {}
        THEN Append(groups, [key |-> group_key, prices |-> <<id>>, members |-> <<pos>>])
        ELSE LET i == CHOOSE i \in at : TRUE
             IN  [groups EXCEPT
                    ![i] = [key |-> @.key,
                            prices |-> Insert(@.prices, Below(@), id),
                            members |-> Insert(@.members, Below(@), pos)]]
\* if group_key not in groups: groups[group_key] = [];
\* groups[group_key].append(price_id).  groups: the dict in insertion order;
\* members: the positions of the source items behind the ids
AddToGroup(groups, group_key, id, pos) ==
    LET at == {i \in 1..Len(groups) : groups[i].key = group_key}
    IN  IF at = {}
        THEN Append(groups, [key |-> group_key, prices |-> <<id>>, members |-> <<pos>>])
        ELSE LET i == CHOOSE i \in at : TRUE
             IN  [groups EXCEPT ![i].prices = Append(@, id),
                                ![i].members = Append(@, pos)]

\* PricingConverter.group_prices_for_price_sets
RECURSIVE group_prices_for_price_sets(_)
group_prices_for_price_sets(morpheus_prices) ==
    IF morpheus_prices = <<>> THEN <<>>
    ELSE LET n == Len(morpheus_prices)
             groups == group_prices_for_price_sets(SubSeq(morpheus_prices, 1, n - 1))
             price_data == morpheus_prices[n]
             group_key == AzureGroupKey(price_data.name)
         IN  IF price_data.price_id = 0 \/ group_key = <<>> THEN groups
             ELSE AddToGroup(groups, group_key, price_data.price_id, price_data.pos)

\* process_pricing_data: category_groups, the SKUs (by position) of each
\* category in insertion order
RECURSIVE category_groups(_)
category_groups(skus) ==
    IF skus = <<>> THEN <<>>
    ELSE LET n == Len(skus)
         IN  AddToGroup(category_groups(SubSeq(skus, 1, n - 1)),
                        GcpCategoryKey(skus[n]), n, n)

----------------------------------------------------------------------------
(* The specification of grouping: one list of reconciled records grouped in
   two processing orders *)

MaxGroupRecords == 3

\* reconciled Azure prices (entries of successful_prices)
AzureReconciled ==
    { [name |-> <<PRICE_PREFIX, p, "Premium SSD", l>>, price_id |-> i, pos |-> i] :
        p \in {"Managed Disks", "Blob Storage - Hot"},
        l \in {"US East", "EU West"},
        i \in {1, 2} }

\* GCP SKUs before grouping
GcpSkus ==
    [id : SkuIds, region : Regions, description : {Absent},
     resourceFamily : {"Compute", Absent}, resourceGroup : {"CPU", Absent},
     pricingInfo : {"rates"}]

Orderings(n) ==
    {f \in [1..n -> 1..n] : \A i, j \in 1..n : f[i] = f[j] => i = j}

Permuted(seq, f) == [i \in 1..Len(seq) |-> seq[f[i]]]

\* the groups of a list: Azure groups reconciled prices by name, GCP groups
\* SKUs by category
Grouped(v, seq) ==
    IF v = "azure" THEN group_prices_for_price_sets(seq) ELSE category_groups(seq)

\* grouping applied to the list and to its permutation
Group ==
    /\ gout = <<>>
    /\ ginput # <<>>
    /\ gout' = <<Grouped(variant, ginput),
                 Grouped(variant, Permuted(ginput, gperm))>>
    /\ UNCHANGED <<variant, ginput, gperm, rvars, fvars, nvars, uvars, ovars>>

InitGroup ==
    /\ variant \in {"azure", "gcp"}
    /\ \E n \in 1..MaxGroupRecords :
         /\ ginput \in [1..n -> IF variant = "azure" THEN AzureReconciled ELSE GcpSkus]
         /\ gperm \in Orderings(n)
    /\ gout = <<>>
    /\ ReconcileAtRest
    /\ FetchAtRest
    /\ NormalizeAtRest
    /\ RunAtRest
    /\ OthersAtRest

NextGroup == Group

SpecGroup == InitGroup /\ [][NextGroup]_vars

\* the member of a group's list: an Azure price id, a GCP SKU
MemberOf(v, seq, m) == IF v = "azure" THEN m ELSE seq[m]

\* the groups as a set of <<key, set of members>>
AsSets(v, seq, groups) ==
    { <<groups[i].key,
        {MemberOf(v, seq, groups[i].prices[k]) : k \in 1..Len(groups[i].prices)}>> :
      i \in 1..Len(groups) }

\* C18: grouping a list of reconciled records and grouping any permutation
\* of it give the same set of group keys and, for each key, the same set of
\* members.
C18_GroupingOrderIndependent ==
    gout # <<>> =>
        AsSets(variant, ginput, gout[1])
          = AsSets(variant, Permuted(ginput, gperm), gout[2])

C18_Witness ==
    /\ gout # <<>>
    /\ variant = "azure"
    /\ Len(gout[1]) = 2
    /\ gout[1] # gout[2]
    /\ \E i \in 1..2 : Len(gout[1][i].prices) = 2
    /\ \E i \in 1..Len(ginput) : ginput[i].name[2] = "Blob Storage - Hot"

----------------------------------------------------------------------------
(* The run: upload loop, grouping, price sets *)

MaxRunItems == 2

\* what _make_request ends with when the outcome of its last attempt is o
RequestResult(o) == IF HttpOk(o) THEN "returned" ELSE "raised"

\* the outcomes the write request of an upsert can end with
WriteOutcomes(nxt) ==
    CASE nxt = "put" -> PutOutcomes
      [] nxt = "post" -> PostOutcomes
      [] OTHER -> {"ok"}

\* mutant: the record a create stored is not seen by the lookups that follow
CatalogAfter_Unseen(cat, nid, code, stored) == cat
\* POST /api/prices that answers success leaves a record with the code in the
\* destination, which the next GET /api/prices?code= lists
CatalogAfter(cat, nid, code, stored) ==
    IF stored THEN Append(cat, [id |-> nid, code |-> code]) ELSE cat

\* create_or_update_price as one step: g and w are the outcomes the lookup
\* and the write request end with
create_or_update_price(v, cat, nid, code, g, w) ==
    LET res == RequestResult(g)
        wres == RequestResult(w)
        prices == Matching(cat, code)
        nxt == AfterLookup(v, res, prices)
        target == Existing(v, res, prices)
        stored == nxt = "post" /\ Created(w)
        raised == nxt = "raise" \/ (v = "gcp" /\ wres = "raised")
        success == CASE nxt = "put" -> w = "ok"
                     [] nxt = "post" -> Created(w)
                     [] OTHER -> FALSE
        id == CASE nxt = "put" ->
                     IF v = "azure" THEN AzureUpdateResult(wres, w, target)
                     ELSE IF wres = "returned" THEN target ELSE 0
                [] nxt = "post" ->
                     IF v = "azure" THEN create_price(wres, w, nid)
                     ELSE IF wres = "returned" THEN GcpCreatedId(w, nid) ELSE 0
                [] OTHER -> 0
    IN  [price_id |-> id, success |-> success, lookup |-> res, write |-> nxt,
         accepted |-> Accepted(v, id, success, raised),
         catalog |-> CatalogAfter(cat, nid, code, stored),
         nextId |-> IF stored THEN nid + 1 ELSE nid]

\* what the run records of one source item: was it normalized, was an upsert
\* issued for it, and how the upsert went
Processed(pos, out, u) ==
    [pos |-> pos, normalized |-> ~out.raised, upserted |-> TRUE,
     code |-> out.price.code, lookup |-> u.lookup, write |-> u.write, success |-> u.success,
     price_id |-> u.price_id, accepted |-> u.accepted]

Skipped(pos) ==
    [pos |-> pos, normalized |-> FALSE, upserted |-> FALSE,
     code |-> <<>>, lookup |-> "-", write |-> "-", success |-> FALSE,
     price_id |-> 0, accepted |-> FALSE]

\* the fetched items of a run
AzureRunItems ==
    [id : SkuIds \cup {Absent}, region : Regions,
     serviceName : {"Storage"}, meterName : {"Premium SSD"},
     productName : {"Managed Disks", "Blob Storage - Hot"},
     location : {"US East"}, retailPrice : {"0.192"}, unitOfMeasure : {"1/Month"}]

GcpRunItems ==
    [id : SkuIds \cup {Absent}, region : Regions, description : {Absent},
     resourceFamily : {"Compute"}, resourceGroup : {"CPU", "RAM"},
     pricingInfo : {"rates"}]

RunItems(v) == IF v = "azure" THEN AzureRunItems ELSE GcpRunItems

\* the conversion of each item a run can fetch, computed once
Conversions ==
    { [item |-> it, out |-> convert_azure_to_morpheus_price(it)] : it \in AzureRunItems }

converted(item) == (CHOOSE c \in Conversions : c.item = item).out

\* the price sets the Azure run has to submit
price_groups == group_prices_for_price_sets(successful_prices)

\* str.split(sep, 1): cut at the first occurrence of sep only
str_split_once(cs, sep) ==
    LET parts == str_split(cs, sep)
    IN  IF Len(parts) <= 1 THEN parts
        ELSE <<parts[1], SubSeq(cs, Len(parts[1]) + Len(sep) + 1, Len(cs))>>

\* str.replace(' ', '')
str_remove_spaces(cs) == LET NotSpace(c) == c # " " IN SelectSeq(cs, NotSpace)

\* PricingConverter.create_price_set: the priceSet the Azure run submits for
\* a group key and its ids (the parts of name and code are kept apart)
create_price_set(group_key, ids) ==
    LET parts == str_split_once(group_key, Chars("_"))
        service_name == parts[1]
        location == IF Len(parts) > 1 THEN parts[2] ELSE Chars("Unknown")
        service_lower == str_lower(service_name)
        price_set_type ==
            IF any_in({"storage", "disk", "blob"}, service_lower) THEN "storage"
            ELSE IF any_in({"virtual", "compute"}, service_lower)
                 THEN "compute_plus_storage"
                 ELSE "compute"
    IN  [name |-> <<PRICE_PREFIX, "Azure", service_name, location>>,
         code |-> <<Lower(PRICE_PREFIX), "azure",
                    str_remove_spaces(str_lower(service_name)),
                    str_remove_spaces(str_lower(location))>>,
         priceUnit |-> "hour",
         type |-> price_set_type,
         regionCode |-> str_remove_spaces(str_lower(location)),
         prices |-> ids]

\* the region the GCP script is configured for
gcp_region == "eastus"

\* f"{resourceFamily}/{resourceGroup}" as text
CategoryText(category_key) ==
    Chars(category_key[1]) \o Chars(category_key[2]) \o Chars(category_key[3])

\* create_price_set_data: the priceSet the GCP run submits for a category
create_price_set_data(category_key, ids) ==
    LET text == CategoryText(category_key)
        family == IF str_in(Chars("/"), text)
                  THEN str_split(text, Chars("/"))[1] ELSE text
        price_set_type == IF family = Chars("Storage") THEN "storage" ELSE "compute"
    IN  [name |-> <<price_prefix, "Google", text, gcp_region>>,
         code |-> <<Lower(price_prefix), "google", str_lower(text), gcp_region>>,
         priceUnit |-> "hour",
         type |-> price_set_type,
         regionCode |-> gcp_region,
         prices |-> ids]

\* the priceSet of each group key a run can meet, computed once
PriceSetData ==
    { [key |-> g.key, data |-> create_price_set(g.key, <<>>)] : g \in GroupKeys }
      \cup { [key |-> k, data |-> create_price_set_data(k, <<>>)] :
               k \in {GcpCategoryKey(sku) : sku \in GcpRunItems} }

price_set_data(key, ids) ==
    [(CHOOSE d \in PriceSetData : d.key = key).data EXCEPT !.prices = ids]

\* the call POST /api/price-sets of a run: the group, what was sent, how the
\* request ended, how the run took it down, and how many source items the
\* run had gone through when it was sent
PriceSetCall(key, prices, members, o, noted) ==
    LET data == price_set_data(key, prices)
    IN  [key |-> key, prices |-> data.prices, members |-> members,
         type |-> data.type, code |-> data.code, name |-> data.name,
         result |-> o, noted |-> noted, at |-> Len(hist)]

\* sync_azure_pricing, after its loops: the SYNC SUMMARY block logs the
\* counts and the run returns len(successful_prices) > 0
AzureReturn(ended, prices, failed, counts) ==
    IF ended
    THEN /\ summary' = <<Len(all_items), Len(prices), failed, counts>>
         /\ result' = IF Len(prices) > 0 THEN "True" ELSE "False"
    ELSE UNCHANGED <<summary, result>>

\* sync_azure_pricing when nothing was fetched: `if not all_azure_items:
\* return False`, before the summary
AzureNothingFetched ==
    /\ variant = "azure"
    /\ rpc = "fetched"
    /\ all_items = <<>>
    /\ result' = "False"
    /\ rpc' = "done"
    /\ UNCHANGED <<variant, all_items, run_i, cat_i, sku_i, successful_prices,
                   price_ids, failed_count, bundles, hist, price_set_counts, summary>>
    /\ UNCHANGED <<rvars, fvars, nvars, gvars, ovars>>

\* mutant: a failed item is left out of the count
upload_failed_Uncounted(failed) == failed
\* sync_azure_pricing: failed_count += 1, in the else of `if price_id:` and
\* in except Exception
upload_failed(failed) == failed + 1

\* sync_azure_pricing, one iteration of the upload loop: convert, upsert,
\* record the price or count the failure; after the last item: if
\* successful_prices, price_set_success = price_set_failed = 0, else the
\* summary and the return
AzureUploadItem ==
    /\ variant = "azure"
    /\ rpc = "upload"
    /\ run_i < Len(all_items)
    /\ LET pos == run_i + 1
           out == converted(all_items[pos])
       IN  IF out.raised
           THEN /\ failed_count' = upload_failed(failed_count)
                /\ hist' = Append(hist, Skipped(pos))
                /\ UNCHANGED <<successful_prices, catalog, nextId>>
           ELSE \E g \in GetOutcomes, w \in PostOutcomes :
                  LET u == create_or_update_price("azure", catalog, nextId,
                                                  out.price.code, g, w)
                  IN  /\ w \in WriteOutcomes(u.write)
                      /\ catalog' = u.catalog
                      /\ nextId' = u.nextId
                      /\ hist' = Append(hist, Processed(pos, out, u))
                      /\ IF u.accepted
                         THEN /\ successful_prices' =
                                   Append(successful_prices,
                                          [name |-> out.price.name,
                                           price_id |-> u.price_id, pos |-> pos])
                              /\ UNCHANGED failed_count
                         ELSE /\ failed_count' = upload_failed(failed_count)
                              /\ UNCHANGED successful_prices
    /\ run_i' = run_i + 1
    /\ rpc' = IF run_i' < Len(all_items) THEN "upload"
              ELSE IF successful_prices' # <<>> THEN "sets" ELSE "done"
    /\ price_set_counts' = IF rpc' = "sets" THEN <<0, 0>> ELSE price_set_counts
    /\ AzureReturn(rpc' = "done", successful_prices', failed_count', price_set_counts')
    /\ UNCHANGED <<variant, all_items, cat_i, sku_i, price_ids, bundles>>
    /\ UNCHANGED <<pc, cur, attempt, alog, slept, areq, last, prev, nUpserts>>
    /\ UNCHANGED <<fvars, nvars, gvars, ovars>>

\* the outcomes POST /api/price-sets can end with
PriceSetOutcomes == {"ok", "reject", "transient", "permanent"}

\* MorpheusClient.create_price_set of the Azure script: True if the answer
\* says success, False otherwise and on any exception
AzurePriceSetCreated(o) == o = "ok"

\* sync_azure_pricing, one iteration of the price-set loop: the groups are
\* never empty, so each gets its create_price_set call; the result goes to
\* price_set_success or to price_set_failed; after the last group, the
\* summary and the return
AzureCreatePriceSet ==
    /\ variant = "azure"
    /\ rpc = "sets"
    /\ Len(bundles) < Len(price_groups)
    /\ LET g == price_groups[Len(bundles) + 1]
       IN  \E o \in PriceSetOutcomes :
             LET success == AzurePriceSetCreated(o)
             IN  /\ bundles' = Append(bundles,
                                      PriceSetCall(g.key, g.prices, g.members, o,
                                                   IF success THEN "success" ELSE "failure"))
                 /\ price_set_counts' =
                      IF success
                      THEN <<price_set_counts[1] + 1, price_set_counts[2]>>
                      ELSE <<price_set_counts[1], price_set_counts[2] + 1>>
    /\ rpc' = IF Len(bundles') < Len(price_groups) THEN "sets" ELSE "done"
    /\ AzureReturn(rpc' = "done", successful_prices, failed_count, price_set_counts')
    /\ UNCHANGED <<variant, all_items, run_i, cat_i, sku_i, successful_prices,
                   price_ids, failed_count, hist>>
    /\ UNCHANGED <<rvars, fvars, nvars, gvars, ovars>>

\* the categories the GCP run walks through
categories == category_groups(all_items)

\* the position reached after leaving category c; after the last one
\* process_pricing_data returns and main logs "Pricing sync completed
\* successfully"
AfterCategory(c) ==
    /\ cat_i' = c + 1
    /\ sku_i' = 0
    /\ price_ids' = <<>>
    /\ rpc' = IF c < Len(categories) THEN "upload" ELSE "done"
    /\ result' = IF c < Len(categories) THEN result ELSE "completed"

\* process_pricing_data, one SKU of the current category: create_price_data,
\* create_or_update_price, keep the id.  An exception of create_price_data is
\* caught by the handler of the category, which goes on with the next one.
GcpProcessSku ==
    /\ variant = "gcp"
    /\ rpc = "upload"
    /\ cat_i <= Len(categories)
    /\ sku_i < Len(categories[cat_i].prices)
    /\ LET pos == categories[cat_i].prices[sku_i + 1]
           out == create_price_data(all_items[pos])
           last_one == sku_i + 1 = Len(categories[cat_i].prices)
       IN  IF out.raised
           THEN /\ hist' = Append(hist, Skipped(pos))
                /\ AfterCategory(cat_i)
                /\ UNCHANGED <<catalog, nextId>>
           ELSE \E g \in GetOutcomes, w \in PostOutcomes :
                  LET u == create_or_update_price("gcp", catalog, nextId,
                                                  out.price.code, g, w)
                      ids == IF u.accepted
                             THEN Append(price_ids, [price_id |-> u.price_id, pos |-> pos])
                             ELSE price_ids
                  IN  /\ w \in WriteOutcomes(u.write)
                      /\ catalog' = u.catalog
                      /\ nextId' = u.nextId
                      /\ hist' = Append(hist, Processed(pos, out, u))
                      /\ IF last_one /\ ids = <<>>
                         THEN AfterCategory(cat_i)
                         ELSE /\ price_ids' = ids
                              /\ sku_i' = sku_i + 1
                              /\ UNCHANGED <<cat_i, rpc, result>>
    /\ UNCHANGED <<variant, all_items, run_i, successful_prices, failed_count,
                   bundles, price_set_counts, summary>>
    /\ UNCHANGED <<pc, cur, attempt, alog, slept, areq, last, prev, nUpserts>>
    /\ UNCHANGED <<fvars, nvars, gvars, ovars>>

\* mutant: the price set is submitted as soon as the category has an id
category_walked_FirstId(c, k) == k >= 1
\* `for sku in category_skus` has gone through every SKU of category c
category_walked(c, k) == k = Len(categories[c].prices)

\* MorpheusClient.create_price_set of the GCP script: returns the answer
\* whatever it says, raises when the request failed after its retries
GcpPriceSetReturns(o) == HttpOk(o)

\* process_pricing_data, the end of a category: if price_ids:
\* create_price_set, then the log line "Successfully created price set"; an
\* exception of the call ends in the log line of the category handler
GcpCreatePriceSet ==
    /\ variant = "gcp"
    /\ rpc = "upload"
    /\ cat_i <= Len(categories)
    /\ category_walked(cat_i, sku_i)
    /\ price_ids # <<>>
    /\ \E o \in PriceSetOutcomes :
         bundles' = Append(bundles,
                           PriceSetCall(categories[cat_i].key,
                                        [k \in 1..Len(price_ids) |-> price_ids[k].price_id],
                                        [k \in 1..Len(price_ids) |-> price_ids[k].pos],
                                        o,
                                        IF GcpPriceSetReturns(o) THEN "success" ELSE "failure"))
    /\ AfterCategory(cat_i)
    /\ UNCHANGED <<variant, all_items, run_i, successful_prices, failed_count, hist,
                   price_set_counts, summary>>
    /\ UNCHANGED <<rvars, fvars, nvars, gvars, ovars>>

\* main of the GCP script when get_all_skus raised (the exception is logged
\* and raised again) or returned no SKU (process_pricing_data has nothing
\* to do, "Pricing sync completed successfully")
GcpNothingFetched ==
    /\ variant = "gcp"
    /\ rpc \in {"fetched", "fetch_raised"}
    /\ all_items = <<>>
    /\ result' = IF rpc = "fetch_raised" THEN "raised" ELSE "completed"
    /\ rpc' = "done"
    /\ UNCHANGED <<variant, all_items, run_i, cat_i, sku_i, successful_prices,
                   price_ids, failed_count, bundles, hist, price_set_counts, summary>>
    /\ UNCHANGED <<rvars, fvars, nvars, gvars, ovars>>

\* the destination when a run starts: empty, holding m1, holding m1 and m2
\* (the catalogs that differ from these by renaming the SKUs are left out)
RunCatalogs(v) ==
    { c \in InitCatalogs :
        /\ \A i \in 1..Len(c) :
              /\ c[i].code[2] = (IF v = "azure" THEN "azure" ELSE "google")
              /\ c[i].code[3] = <<"m1", "m2">>[i]
        /\ \A i, j \in 1..Len(c) : c[i].code = c[j].code => i = j }

\* a run starts with what the fetch stage left: the items fetched, or (GCP)
\* the exception get_all_skus raised
InitRun ==
    /\ variant \in {"azure", "gcp"}
    /\ catalog \in RunCatalogs(variant)
    /\ nextId = Len(catalog) + 1
    /\ pc = "off" /\ cur = NoCur /\ attempt = 0 /\ alog = <<>> /\ slept = <<>>
    /\ areq = NoReq
    /\ last = NoSummary /\ prev = Brief(NoSummary) /\ nUpserts = 0
    /\ \E n \in 0..MaxRunItems : all_items \in [1..n -> RunItems(variant)]
    /\ rpc \in IF all_items # <<>> THEN {"upload"}
               ELSE IF variant = "gcp" THEN {"fetched", "fetch_raised"} ELSE {"fetched"}
    /\ run_i = 0
    /\ cat_i = 1
    /\ sku_i = 0
    /\ successful_prices = <<>>
    /\ price_ids = <<>>
    /\ failed_count = 0
    /\ bundles = <<>>
    /\ hist = <<>>
    /\ price_set_counts = <<>>
    /\ summary = <<>>
    /\ result = "-"
    /\ FetchAtRest
    /\ NormalizeAtRest
    /\ GroupAtRest
    /\ OthersAtRest

NextRun ==
    \/ AzureNothingFetched
    \/ AzureUploadItem
    \/ AzureCreatePriceSet
    \/ GcpNothingFetched
    \/ GcpProcessSku
    \/ GcpCreatePriceSet

SpecRun == InitRun /\ [][NextRun]_vars


----------------------------------------------------------------------------
(* The price-set exports: AWS_Price_Dump.py get_all_ec2_pricing and
   GCP_pricing.py format_for_morpheus, each applied to the list it received.
   Here variant "gcp" is the export script GCP_pricing.py. *)

MaxProducts == 2

\* the EBS volume types get_all_ec2_pricing prices, in dict order
ebs_volume_types == <<"io1", "sc1", "st1", "standard">>

\* get_all_ec2_pricing: the price set built for one product
AwsPriceSet(product) ==
    LET instance_type == product.instanceType
        on_demand_price == dict_get(product.usd, "0")
        storage == [k \in 1..Len(ebs_volume_types) |->
                      [code |-> <<"amazon.storage", ebs_volume_types[k],
                                  "ec2.us-east-1.amazonaws.com">>,
                       priceType |-> "storage", priceUnit |-> "month"]]
        compute == [k \in 1..2 |->
                      [code |-> <<"amazon", instance_type, "ec2.us-east-1.amazonaws.com",
                                  <<"Linux", "Windows">>[k]>>,
                       priceType |-> <<"compute", "platform">>[k],
                       priceUnit |-> "hour", price |-> on_demand_price]]
    IN  [name |-> <<"Amazon", instance_type, "US East (N. Virginia)">>,
         code |-> <<"amazon", instance_type, "ec2.us-east-1.amazonaws.com">>,
         type |-> "compute_plus_storage",
         prices |-> [k \in 1..6 |-> IF k <= 4 THEN storage[k].code ELSE compute[k - 4].code]]

\* get_all_ec2_pricing: products of another service or without an instance
\* type are skipped, every other product appends its own price set
RECURSIVE get_all_ec2_pricing(_)
get_all_ec2_pricing(ec2_products) ==
    IF ec2_products = <<>> THEN <<>>
    ELSE LET n == Len(ec2_products)
             sets == get_all_ec2_pricing(SubSeq(ec2_products, 1, n - 1))
             product == ec2_products[n]
         IN  IF product.servicecode # "AmazonEC2" \/ product.instanceType = Absent
             THEN sets
             ELSE Append(sets, AwsPriceSet(product))

\* format_for_morpheus: the price set built for one SKU
GcpPriceSet(sku) ==
    LET machine_type == dict_get(sku.resourceGroup, "")
    IN  [key |-> machine_type,
         name |-> <<"Google", "Compute Engine", machine_type, "us-central1">>,
         code |-> <<"google.compute", machine_type, "us-central1">>,
         type |-> "compute",
         prices |-> << <<"google", sku.id, "us-central1">> >>]

\* format_for_morpheus: SKUs without pricingInfo are skipped; the first SKU
\* of a machine type enters its price set in machine_types, the later ones
\* extend its prices; the result is the dict's values in insertion order
RECURSIVE format_for_morpheus(_)
format_for_morpheus(skus) ==
    IF skus = <<>> THEN <<>>
    ELSE LET n == Len(skus)
             machine_types == format_for_morpheus(SubSeq(skus, 1, n - 1))
             sku == skus[n]
             price_set == GcpPriceSet(sku)
             at == {i \in 1..Len(machine_types) : machine_types[i].key = price_set.key}
         IN  IF sku.pricingInfo \in {Absent, "[]"} THEN machine_types
             ELSE IF at = {} THEN Append(machine_types, price_set)
             ELSE LET i == CHOOSE i \in at : TRUE
                  IN  [machine_types EXCEPT ![i].prices = @ \o price_set.prices]

\* the products the AWS price list service returns for the filters of the
\* script: several products (here told apart by the software they come
\* with) can carry one instance type
AwsProducts ==
    [servicecode : {"AmazonEC2", Absent}, instanceType : {"t3.micro", "m5.large", Absent},
     preInstalledSw : {"NA", "SQL Web"}, usd : {"0.0104", Absent}]

\* the SKUs get_compute_skus returns
GcpExportSkus ==
    [id : SkuIds, resourceGroup : {"N1Standard", "CPU", Absent},
     pricingInfo : {"rates", "[]", Absent}]

AwsExport ==
    /\ variant = "aws"
    /\ epc = "run"
    /\ price_sets' = get_all_ec2_pricing(products)
    /\ epc' = "returned"
    /\ UNCHANGED <<variant, products, rvars, fvars, nvars, gvars, uvars, pvars, yvars>>

GcpExport ==
    /\ variant = "gcp"
    /\ epc = "run"
    /\ price_sets' = format_for_morpheus(products)
    /\ epc' = "returned"
    /\ UNCHANGED <<variant, products, rvars, fvars, nvars, gvars, uvars, pvars, yvars>>

InitExport ==
    /\ variant \in {"aws", "gcp"}
    /\ \E n \in 0..MaxProducts :
         products \in { ps \in [1..n -> IF variant = "aws" THEN AwsProducts
                                         ELSE GcpExportSkus] :
                           \A i, j \in 1..n : ps[i] = ps[j] => i = j }
    /\ price_sets = <<>>
    /\ epc = "run"
    /\ ReconcileAtRest
    /\ FetchAtRest
    /\ NormalizeAtRest
    /\ GroupAtRest
    /\ RunAtRest
    /\ PollerAtRest
    /\ VersionsAtRest
    /\ StagesAtRest

NextExport ==
    \/ AwsExport
    \/ GcpExport

SpecExport == InitExport /\ [][NextExport]_vars

\* C27: no two price sets a run emits carry the same code.
C27_BundleCodesUnique ==
    epc = "returned" =>
        \A i, j \in 1..Len(price_sets) :
            price_sets[i].code = price_sets[j].code => i = j


----------------------------------------------------------------------------
(* Claims about the run (SpecRun) *)

\* the source items a bundle was built from
Members(b) == {b.members[k] : k \in 1..Len(b.members)}

\* the source items the run has gone through
ProcessedPositions == {hist[k].pos : k \in 1..Len(hist)}

\* the index of a source item in the order of processing
HistIndex(pos) == CHOOSE k \in 1..Len(hist) : hist[k].pos = pos

RECURSIVE Flatten(_)
Flatten(groups) ==
    IF groups = <<>> THEN <<>>
    ELSE Flatten(SubSeq(groups, 1, Len(groups) - 1)) \o groups[Len(groups)].prices

\* the order in which the run takes the source items: Azure as fetched, GCP
\* category by category
ProcessingOrder ==
    IF variant = "azure" THEN [i \in 1..Len(all_items) |-> i]
    ELSE Flatten(categories)

\* the upsert of a source item failed: its lookup, its create or its update
\* failed, or it obtained no id
UpsertFailed(h) ==
    h.upserted /\ (h.lookup = "raised" \/ ~h.success \/ h.price_id = 0)

\* C11: a source item whose upsert failed (its lookup, create or update
\* failed, or no id was obtained) is in no bundle submitted in the run, and
\* the run goes on: the item that follows it in the order of processing is
\* processed too.
C11_FailedUpsertExcluded ==
    \A k \in 1..Len(hist) :
        UpsertFailed(hist[k]) =>
            /\ \A b \in 1..Len(bundles) : hist[k].pos \notin Members(bundles[b])
            /\ rpc = "done" =>
                 \A n \in 1..(Len(ProcessingOrder) - 1) :
                     ProcessingOrder[n] = hist[k].pos =>
                         ProcessingOrder[n + 1] \in ProcessedPositions

\* a required attribute is missing from the raw item
LacksRequired(item) == item.id = Absent \/ item.region = Absent

\* C16: a raw item without its identifier or its region yields no price
\* record and no upsert, is counted as a failure (the Azure run keeps the
\* count), and every other item of the run is still processed.
C16_MissingAttributeSkipped ==
    /\ \A k \in 1..Len(hist) :
           LacksRequired(all_items[hist[k].pos]) =>
               ~hist[k].normalized /\ ~hist[k].upserted
    /\ (rpc = "done" /\ variant = "azure") =>
           failed_count >= Cardinality({p \in 1..Len(all_items) :
                                           LacksRequired(all_items[p])})
    /\ rpc = "done" => ProcessedPositions = 1..Len(all_items)

\* the group key of a source item's record
KeyOf(pos) ==
    IF variant = "azure" THEN AzureGroupKey(converted(all_items[pos]).price.name)
    ELSE GcpCategoryKey(all_items[pos])

\* C19: when the run has ended, every source item whose upsert was accepted
\* is a member of exactly one submitted bundle, the bundle of its own group
\* key; no bundle is submitted without members or with a member that failed.
C19_ReconciledInOneBundle ==
    /\ \A b \in 1..Len(bundles) :
           /\ bundles[b].prices # <<>>
           /\ \A p \in Members(bundles[b]) :
                  /\ p \in ProcessedPositions
                  /\ hist[HistIndex(p)].accepted
                  /\ KeyOf(p) = bundles[b].key
    /\ \A b, c \in 1..Len(bundles) : bundles[b].key = bundles[c].key => b = c
    /\ rpc = "done" =>
           \A k \in 1..Len(hist) :
               hist[k].accepted =>
                   Cardinality({b \in 1..Len(bundles) :
                                   hist[k].pos \in Members(bundles[b])}) = 1

\* C20: the ids of a submitted bundle are listed in the order in which their
\* source items were upserted: of two members of a bundle, the one upserted
\* first comes first, and each entry is the id its upsert obtained.
C20_MembersInUpsertOrder ==
    \A b \in 1..Len(bundles) :
        /\ Len(bundles[b].prices) = Len(bundles[b].members)
        /\ \A i \in 1..Len(bundles[b].members) :
               /\ bundles[b].members[i] \in ProcessedPositions
               /\ bundles[b].prices[i] = hist[HistIndex(bundles[b].members[i])].price_id
        /\ \A i, j \in 1..Len(bundles[b].members) :
               i < j => HistIndex(bundles[b].members[i]) < HistIndex(bundles[b].members[j])

C20_Witness ==
    \E b \in 1..Len(bundles) :
        /\ Len(bundles[b].prices) = 2
        /\ bundles[b].prices[1] > bundles[b].prices[2]
        /\ variant = "azure"

\* the submitted price sets of a group key
CallsFor(key) == {b \in 1..Len(bundles) : bundles[b].key = key}

\* C21: each group holding at least one reconciled id gets exactly one
\* create_price_set call in the run; a call that failed (rejected, or raising
\* after its retries) is taken down as a failure (Azure: price_set_failed
\* counts them), and the groups that follow still get their call.
C21_OneCallPerGroupFailuresCounted ==
    /\ \A b \in 1..Len(bundles) :
           /\ Cardinality(CallsFor(bundles[b].key)) = 1
           /\ bundles[b].result # "ok" => bundles[b].noted = "failure"
    /\ (variant = "azure" /\ price_set_counts # <<>>) =>
           price_set_counts[2] =
               Cardinality({b \in 1..Len(bundles) : bundles[b].result # "ok"})
    /\ rpc = "done" =>
           \A k \in 1..Len(hist) :
               hist[k].accepted => CallsFor(KeyOf(hist[k].pos)) # {}

\* the kind the keyword precedence gives to a text
KeywordKind(text) ==
    IF any_in({"storage", "disk", "blob"}, str_lower(text)) THEN "storage"
    ELSE IF any_in({"virtual", "compute"}, str_lower(text)) THEN "compute_plus_storage"
    ELSE "compute"

\* the kind it gives to each group key, computed once
KeywordKinds ==
    { [key |-> g.key, kind |-> KeywordKind(g.key)] : g \in GroupKeys }
      \cup { [key |-> k, kind |-> KeywordKind(CategoryText(k))] :
               k \in {GcpCategoryKey(sku) : sku \in GcpRunItems} }

\* C22: the type of every submitted price set is the one keyword precedence
\* over the text of its group key gives: storage if it holds a storage
\* keyword, else compute_plus_storage if it holds a compute or virtual
\* machine keyword, else compute.
C22_KindByKeywordPrecedence ==
    \A b \in 1..Len(bundles) :
        bundles[b].type = (CHOOSE d \in KeywordKinds : d.key = bundles[b].key).kind

\* C23: a run that ended as failed (sync_azure_pricing returned False, main
\* raised) fetched no item at all.
C23_FailedOnlyWhenNothingFetched ==
    (rpc = "done" /\ result \in {"False", "raised"}) => all_items = <<>>

\* C24: every run that has ended has reported a summary with its counts.
C24_SummaryAlwaysReported ==
    rpc = "done" => summary # <<>>

\* C25: when the price set of a group was submitted, every source item of
\* that group had already been gone through, and none is upserted later.
C25_BundleAfterItsMembers ==
    \A b \in 1..Len(bundles) :
        /\ \A p \in 1..Len(all_items) :
               KeyOf(p) = bundles[b].key =>
                   \E k \in 1..bundles[b].at : hist[k].pos = p
        /\ \A k \in 1..Len(hist) :
               KeyOf(hist[k].pos) = bundles[b].key => k <= bundles[b].at

C25_Witness ==
    \E b \in 1..Len(bundles) :
        /\ Cardinality({p \in 1..Len(all_items) : KeyOf(p) = bundles[b].key}) = 2
        /\ Len(bundles[b].prices) = 1
        /\ bundles[b].at = 2
        /\ variant = "gcp"

\* the upsert went through: its lookup was answered and its write succeeded
Went(h) == h.upserted /\ h.lookup = "returned" /\ h.success

\* C26: of two items of a run that share a code and whose requests all
\* succeeded, the later one finds the record of the earlier one: they never
\* both take the create path.
C26_NoDoubleCreate ==
    \A k, l \in 1..Len(hist) :
        (k < l /\ Went(hist[k]) /\ Went(hist[l]) /\ hist[k].code = hist[l].code)
            => ~(hist[k].write = "post" /\ hist[l].write = "post")

C26_Witness ==
    \E k, l \in 1..Len(hist) :
        /\ k < l
        /\ Went(hist[k]) /\ Went(hist[l])
        /\ hist[k].code = hist[l].code
        /\ hist[k].write = "post"
        /\ hist[l].write = "put"

----------------------------------------------------------------------------
(* The approval poller (Auto-Approve.py): one invocation of main() against
   the approvals of the server.  Times are texts "HH:MM", kept as the tuple
   of their character codes, which is what Python compares. *)

MaxApprovalItems == 2

\* datetime.strftime("%H:%M") of a time given in minutes after midnight
strftime(t) ==
    <<48 + ((t \div 60) \div 10), 48 + ((t \div 60) % 10), 58,
      48 + ((t % 60) \div 10), 48 + ((t % 60) % 10)>>

\* a < b on str: at the first position where they differ, or a a proper prefix
str_lt(a, b) ==
    \/ \E i \in 1..Len(a) :
          /\ i <= Len(b)
          /\ a[i] < b[i]
          /\ \A j \in 1..(i - 1) : a[j] = b[j]
    \/ Len(a) < Len(b) /\ \A j \in 1..Len(a) : a[j] = b[j]

\* a <= b on str
str_le(a, b) == a = b \/ str_lt(a, b)

\* mutant: the end of the window is inside it
is_within_time_range_Closed(cur_time, start_time, end_time) ==
    IF str_le(start_time, end_time)
    THEN str_le(start_time, cur_time) /\ str_le(cur_time, end_time)
    ELSE str_le(start_time, cur_time) \/ str_le(cur_time, end_time)
\* mutant: every time is inside the window
is_within_time_range_Always(cur_time, start_time, end_time) == TRUE
\* is_within_time_range
is_within_time_range(cur_time, start_time, end_time) ==
    IF str_le(start_time, end_time)
    THEN str_le(start_time, cur_time) /\ str_lt(cur_time, end_time)
    ELSE str_le(start_time, cur_time) \/ str_lt(cur_time, end_time)

\* what a request to the approvals API can end with: an answer, an answer
\* with success = false (approve only), a RequestException
ListOutcomes == {"ok", "fail"}
ApproveOutcomes == {"ok", "reject", "fail"}

\* mutant: every item of the approval is approved
needs_approval_Any(item) == TRUE
\* if item["status"] == "requested"
needs_approval(item) == item.status = "requested"

\* the times of day the model draws from, in minutes after midnight
Clock == {0, 5 * 60 + 59, 6 * 60, 9 * 60 + 59, 10 * 60, 17 * 60 + 59, 18 * 60,
          21 * 60 + 59, 22 * 60, 23 * 60 + 59}

\* the configured windows: the one of the script and others, same-day,
\* empty and over midnight
Windows ==
    { <<18 * 60, 22 * 60>>, <<22 * 60, 6 * 60>>, <<18 * 60, 18 * 60>>,
      <<9 * 60 + 59, 10 * 60>>, <<0, 23 * 60 + 59>> }

\* the items an approval can carry; the id of an item names its approval
\* and its position
ItemsOf(a) ==
    UNION { { [k \in 1..n |-> [id |-> 10 * a + k, status |-> st[k]]] :
                st \in [1..n -> {"requested", "approved"}] } :
            n \in 0..MaxApprovalItems }

\* the pending approvals the server holds
ServerApprovals ==
    { <<>> } \cup { <<[id |-> 1, approvalItems |-> x]>> : x \in ItemsOf(1) }
      \cup { <<[id |-> 1, approvalItems |-> x], [id |-> 2, approvalItems |-> y]>> :
               x \in ItemsOf(1), y \in ItemsOf(2) }

\* the state of the loop `for approval in pending` after n approvals
AfterApproval(n, pending) ==
    /\ app_i' = n
    /\ ppc' = IF n < Len(pending) THEN "approval" ELSE "end"

\* main: the window test; inside, get_pending_approvals (its answer, or []
\* on a RequestException); outside, "No action taken"
PollerMain ==
    /\ ppc = "start"
    /\ IF is_within_time_range(current_time, START_TIME, END_TIME)
       THEN \E o \in ListOutcomes :
              /\ calls' = <<[op |-> "list", id |-> 0, outcome |-> o]>>
              /\ pending_approvals' = IF o = "ok" THEN approvals ELSE <<>>
              /\ AfterApproval(0, pending_approvals')
       ELSE /\ ppc' = "end"
            /\ UNCHANGED <<calls, pending_approvals, app_i>>
    /\ UNCHANGED <<current_time, START_TIME, END_TIME, approvals, approval_items, item_i>>
    /\ UNCHANGED <<variant, rvars, fvars, nvars, gvars, uvars, evars, yvars>>

\* main, one approval of the loop: get_approval_details; None on a
\* RequestException ("Could not fetch details"), else its approvalItems
PollerApproval ==
    /\ ppc = "approval"
    /\ LET approval == pending_approvals[app_i + 1]
       IN  \E o \in ListOutcomes :
             /\ calls' = Append(calls, [op |-> "details", id |-> approval.id, outcome |-> o])
             /\ IF o = "ok" /\ approval.approvalItems # <<>>
                THEN /\ approval_items' = approval.approvalItems
                     /\ item_i' = 0
                     /\ ppc' = "items"
                     /\ UNCHANGED app_i
                ELSE /\ AfterApproval(app_i + 1, pending_approvals)
                     /\ UNCHANGED <<approval_items, item_i>>
    /\ UNCHANGED <<current_time, START_TIME, END_TIME, approvals, pending_approvals>>
    /\ UNCHANGED <<variant, rvars, fvars, nvars, gvars, uvars, evars, yvars>>

\* main, one item of the approval: approve_request if its status is
\* "requested"; whatever the call returns, the loop goes on
PollerItem ==
    /\ ppc = "items"
    /\ LET item == approval_items[item_i + 1]
       IN  IF needs_approval(item)
           THEN \E o \in ApproveOutcomes :
                  calls' = Append(calls, [op |-> "approve", id |-> item.id, outcome |-> o])
           ELSE UNCHANGED calls
    /\ item_i' = item_i + 1
    /\ IF item_i' < Len(approval_items)
       THEN UNCHANGED <<ppc, app_i>>
       ELSE AfterApproval(app_i + 1, pending_approvals)
    /\ UNCHANGED <<current_time, START_TIME, END_TIME, approvals, pending_approvals,
                   approval_items>>
    /\ UNCHANGED <<variant, rvars, fvars, nvars, gvars, uvars, evars, yvars>>

\* an invocation: any window and time against a server without approvals,
\* or the window of the script around its edges against any server
InitPoller ==
    /\ variant = "approve"
    /\ \E w \in Windows, t \in Clock :
         /\ START_TIME = strftime(w[1])
         /\ END_TIME = strftime(w[2])
         /\ current_time = strftime(t)
         /\ approvals \in IF w = <<18 * 60, 22 * 60>> /\ t \in {17 * 60 + 59, 18 * 60, 22 * 60}
                          THEN ServerApprovals ELSE {<<>>}
    /\ ppc = "start"
    /\ pending_approvals = <<>>
    /\ app_i = 0
    /\ approval_items = <<>>
    /\ item_i = 0
    /\ calls = <<>>
    /\ ReconcileAtRest
    /\ FetchAtRest
    /\ NormalizeAtRest
    /\ GroupAtRest
    /\ RunAtRest
    /\ ExportAtRest
    /\ VersionsAtRest
    /\ StagesAtRest

NextPoller ==
    \/ PollerMain
    \/ PollerApproval
    \/ PollerItem

SpecPoller == InitPoller /\ [][NextPoller]_vars

----------------------------------------------------------------------------
(* Claims about the approval poller (SpecPoller) *)

\* the time of day a text "HH:MM" stands for, in minutes after midnight
Minutes(text) ==
    ((text[1] - 48) * 10 + (text[2] - 48)) * 60 + (text[4] - 48) * 10 + (text[5] - 48)

\* the time t is in the half-open window from s to e
InWindow(t, s, e) ==
    IF s <= e THEN s <= t /\ t < e ELSE t >= s \/ t < e

\* main took the branch of the auto-approval hours
TookWindowBranch == calls # <<>>

\* C28: once main has tested the window, it is in the branch of the
\* auto-approval hours exactly when the time of day is in [start, end):
\* start <= t < end for a same-day window (never for start = end), and
\* t >= start or t < end for a window over midnight.
C28_HalfOpenWindow ==
    ppc # "start" =>
        (TookWindowBranch <=>
            InWindow(Minutes(current_time), Minutes(START_TIME), Minutes(END_TIME)))

\* at the start of a same-day window, and before the end of one over midnight
C28_Witness ==
    /\ ppc # "start"
    /\ TookWindowBranch
    /\ \/ current_time = START_TIME /\ str_lt(START_TIME, END_TIME)
       \/ str_lt(END_TIME, START_TIME) /\ str_lt(current_time, END_TIME)

\* C29: an invocation outside the window sends no request to the approvals
\* API (no list, no details, no approve) and ends at once.
C29_OutsideNoAction ==
    ~InWindow(Minutes(current_time), Minutes(START_TIME), Minutes(END_TIME)) =>
        /\ calls = <<>>
        /\ ppc \in {"start", "end"}
        /\ pending_approvals = <<>>

\* an invocation that ended outside the window, at its end, with approvals waiting
C29_Witness ==
    /\ ppc = "end"
    /\ current_time = END_TIME
    /\ approvals # <<>>
    /\ calls = <<>>

\* the approve calls sent for an item
ApproveCalls(id) == {c \in 1..Len(calls) : calls[c].op = "approve" /\ calls[c].id = id}

\* the details of the approval were fetched
DetailsFetched(a) ==
    \E c \in 1..Len(calls) :
        calls[c].op = "details" /\ calls[c].id = a /\ calls[c].outcome = "ok"

\* C30: approve is never called for an item that is not "requested" nor
\* twice for one item, and when the invocation has ended every listed
\* approval had one details request and every "requested" item of an
\* approval whose details were fetched had exactly one approve call,
\* whatever the other calls ended with.
C30_EachRequestedItemOnce ==
    /\ \A a \in 1..Len(pending_approvals) :
         \A k \in 1..Len(pending_approvals[a].approvalItems) :
            LET item == pending_approvals[a].approvalItems[k]
                n == Cardinality(ApproveCalls(item.id))
                due == item.status = "requested" /\ DetailsFetched(pending_approvals[a].id)
            IN  /\ n <= (IF due THEN 1 ELSE 0)
                /\ ppc = "end" => n = (IF due THEN 1 ELSE 0)
    /\ \A c \in 1..Len(calls) :
         calls[c].op = "approve" =>
            \E a \in 1..Len(pending_approvals) :
               \E k \in 1..Len(pending_approvals[a].approvalItems) :
                  pending_approvals[a].approvalItems[k].id = calls[c].id
    /\ ppc = "end" =>
         \A a \in 1..Len(pending_approvals) :
            Cardinality({c \in 1..Len(calls) :
                           calls[c].op = "details"
                             /\ calls[c].id = pending_approvals[a].id}) = 1

\* an approval whose details failed and a failed approve call, each
\* followed by an approve call that was sent
C30_Witness ==
    /\ ppc = "end"
    /\ \E c, d, e \in 1..Len(calls) :
         /\ c < d /\ d < e
         /\ calls[c].op = "details" /\ calls[c].outcome = "fail"
         /\ calls[d].op = "approve" /\ calls[d].outcome = "fail"
         /\ calls[e].op = "approve"
    /\ \E a \in 1..Len(pending_approvals) :
         \E k \in 1..Len(pending_approvals[a].approvalItems) :
            pending_approvals[a].approvalItems[k].status = "approved"

\* C35: in sync_azure_pricing, after each item of the upload loop the number
\* of successful prices plus failed_count is the number of items gone
\* through, each item being counted once, as a success when it obtained an
\* id and as a failure otherwise; when the run has ended after the loop the
\* sum is the number of fetched items; and price_set_success plus
\* price_set_failed is the number of groups submitted so far, at the end the
\* number of non-empty groups.
C35_FailureAccounting ==
    ( variant = "azure" /\ rpc \in {"upload", "sets", "done"} ) =>
      /\ Len(hist) = run_i
      /\ Len(successful_prices) + failed_count = run_i
      /\ Len(successful_prices) = Cardinality({i \in 1..Len(hist) : hist[i].accepted})
      /\ failed_count = Cardinality({i \in 1..Len(hist) : ~hist[i].accepted})
      /\ ( rpc \in {"sets", "done"} /\ all_items # <<>> ) => run_i = Len(all_items)
      /\ price_set_counts # <<>>
         => /\ price_set_counts[1] + price_set_counts[2] = Len(bundles)
            /\ rpc = "done"
               => Len(bundles) = Cardinality({k \in 1..Len(price_groups) :
                                                price_groups[k].prices # <<>>})

\* C35 witness: an Azure run ended with one item that obtained an id, one
\* that failed, and a price set that was refused
C35_Witness ==
    /\ variant = "azure"
    /\ rpc = "done"
    /\ Len(all_items) = 2
    /\ Len(successful_prices) = 1
    /\ failed_count = 1
    /\ price_set_counts = <<0, 1>>

\* C37: no destination price id appears more than once across the member
\* lists of the bundles of a run: neither twice in one bundle nor in two
\* bundles, also when two source items normalize to the same code and
\* resolve to the same destination record.
C37_IdOnceAcrossBundles ==
    \A b, c \in 1..Len(bundles) :
        \A i \in 1..Len(bundles[b].prices), j \in 1..Len(bundles[c].prices) :
            bundles[b].prices[i] = bundles[c].prices[j] => (b = c /\ i = j)

----------------------------------------------------------------------------
(* The RDS version server (fetch_rds_versions.py): fetch_rds_versions, run  *)
(* once at startup and then by the scheduler thread, and do_GET, run by the *)
(* server thread.  One step per access to the global or to a list object.   *)

\* calls of fetch_rds_versions, the one at startup included
MaxFetches == 2
\* requests the server receives
MaxRequests == 2

Entry(e, v) == [Engine |-> e, EngineVersion |-> v]

\* what the account lists on one day and on a later day (the --query keeps
\* Engine and EngineVersion of each version)
Listings ==
    { <<>>,
      <<Entry("mysql", "8.0.35"), Entry("postgres", "15.4")>>,
      <<Entry("mysql", "8.0.36"), Entry("postgres", "16.1")>> }

\* JSON texts are sequences of tokens: the brackets and one token per object
OpenBracket == <<"[">>
CloseBracket == <<"]">>
encode_entry(e) == <<e.Engine, e.EngineVersion>>
decode_entry(t) == Entry(t[1], t[2])

\* json.dumps of a list of entries
json_dumps(list) ==
    <<OpenBracket>> \o [i \in 1..Len(list) |-> encode_entry(list[i])] \o <<CloseBracket>>

\* json.loads: the list the text denotes, or JSONDecodeError
json_loads(text) ==
    IF /\ Len(text) >= 2
       /\ text[1] = OpenBracket
       /\ text[Len(text)] = CloseBracket
       /\ \A i \in 2..(Len(text) - 1) : Len(text[i]) = 2
    THEN [raised |-> FALSE,
          value |-> [i \in 1..(Len(text) - 2) |-> decode_entry(text[i + 1])]]
    ELSE [raised |-> TRUE, value |-> <<>>]

\* subprocess.run(..., check=True): a non-zero exit raises CalledProcessError;
\* otherwise stdout is a listing, empty, or cut short
CommandResults ==
    {[returncode |-> 1, stdout |-> <<>>]}
    \cup {[returncode |-> 0, stdout |-> json_dumps(l)] : l \in Listings}
    \cup {[returncode |-> 0, stdout |-> <<>>],
          [returncode |-> 0,
           stdout |-> <<OpenBracket, encode_entry(Entry("mysql", "8.0.36"))>>]}

\* mutant: the except branch resets the global to the empty list
fetch_except_Clears(versions) == 0
\* except Exception as e: print(...).  What the global refers to afterwards.
fetch_except(versions) == versions

\* mutant: the parsed entries overwrite the list the global refers to
new_list_InPlace(h, held, ref, value) ==
    [heap |-> [h EXCEPT ![held] = value], ref |-> held]
\* json.loads returns a list object that did not exist before
new_list(h, held, ref, value) ==
    [heap |-> h @@ (ref :> value), ref |-> ref]

\* fetch_rds_versions returns; the call at startup is followed by
\* run_server()
FetchEnds(outcome, value) ==
    /\ flog' = Append(flog, [outcome |-> outcome, value |-> value])
    /\ vpc' = "idle"
    /\ serving' = TRUE

\* subprocess.run: the first call is main's, the later ones the scheduler's
FetchCommand ==
    /\ variant = "rds"
    /\ vpc = "idle"
    /\ nfetch < MaxFetches
    /\ serving \/ nfetch = 0
    /\ nfetch' = nfetch + 1
    /\ \E r \in CommandResults :
         IF r.returncode # 0
         THEN /\ rds_versions' = fetch_except(rds_versions)
              /\ FetchEnds("error", <<>>)
              /\ UNCHANGED fetch_stdout
         ELSE /\ fetch_stdout' = r.stdout
              /\ vpc' = "ran"
              /\ UNCHANGED <<rds_versions, flog, serving>>
    /\ UNCHANGED <<heap, fetch_parsed, hpc, h_ref, h_i, h_buf, h_seen, nreq, responses>>
    /\ UNCHANGED <<variant, rvars, fvars, nvars, gvars, uvars, evars, pvars, tvars>>

\* json.loads(result.stdout)
FetchParse ==
    /\ vpc = "ran"
    /\ LET r == json_loads(fetch_stdout)
       IN  IF r.raised
           THEN /\ rds_versions' = fetch_except(rds_versions)
                /\ FetchEnds("unparsable", <<>>)
                /\ UNCHANGED <<heap, fetch_parsed>>
           ELSE LET n == new_list(heap, rds_versions, nfetch, r.value)
                IN  /\ heap' = n.heap
                    /\ fetch_parsed' = n.ref
                    /\ vpc' = "parsed"
                    /\ UNCHANGED <<rds_versions, flog, serving>>
    /\ UNCHANGED <<fetch_stdout, nfetch, hpc, h_ref, h_i, h_buf, h_seen, nreq, responses>>
    /\ UNCHANGED <<variant, rvars, fvars, nvars, gvars, uvars, evars, pvars, tvars>>

\* rds_versions = <the list parsed>
FetchStore ==
    /\ vpc = "parsed"
    /\ rds_versions' = fetch_parsed
    /\ FetchEnds("ok", heap[fetch_parsed])
    /\ UNCHANGED <<heap, fetch_stdout, fetch_parsed, nfetch, hpc, h_ref, h_i, h_buf,
                   h_seen, nreq, responses>>
    /\ UNCHANGED <<variant, rvars, fvars, nvars, gvars, uvars, evars, pvars, tvars>>

Paths == {"/aws_rds_version", "/"}

\* do_GET up to the read of the global; another path is answered 404
HandlerLoad ==
    /\ serving
    /\ hpc = "idle"
    /\ nreq < MaxRequests
    /\ nreq' = nreq + 1
    /\ \E path \in Paths :
         IF path = "/aws_rds_version"
         THEN /\ h_ref' = rds_versions
              /\ h_i' = 0
              /\ h_buf' = <<>>
              /\ h_seen' = [before |-> heap[rds_versions], at |-> Len(flog)]
              /\ hpc' = "encoding"
              /\ UNCHANGED responses
         ELSE /\ responses' = Append(responses,
                                [status |-> 404, body |-> <<<<"404 Not Found">>>>,
                                 before |-> <<>>, at |-> 0, after |-> <<>>])
              /\ UNCHANGED <<h_ref, h_i, h_buf, h_seen, hpc>>
    /\ UNCHANGED <<rds_versions, heap, vpc, fetch_stdout, fetch_parsed, nfetch, serving, flog>>
    /\ UNCHANGED <<variant, rvars, fvars, nvars, gvars, uvars, evars, pvars, tvars>>

\* json.dumps encodes the next entry of the list it was given
HandlerEncode ==
    /\ hpc = "encoding"
    /\ h_i < Len(heap[h_ref])
    /\ h_buf' = Append(h_buf, encode_entry(heap[h_ref][h_i + 1]))
    /\ h_i' = h_i + 1
    /\ UNCHANGED <<rds_versions, heap, vpc, fetch_stdout, fetch_parsed, nfetch, serving,
                   flog, hpc, h_ref, h_seen, nreq, responses>>
    /\ UNCHANGED <<variant, rvars, fvars, nvars, gvars, uvars, evars, pvars, tvars>>

\* the list is exhausted: self.wfile.write(<the text>.encode())
HandlerWrite ==
    /\ hpc = "encoding"
    /\ h_i >= Len(heap[h_ref])
    /\ responses' = Append(responses,
                      [status |-> 200,
                       body |-> <<OpenBracket>> \o h_buf \o <<CloseBracket>>,
                       before |-> h_seen.before, at |-> h_seen.at,
                       after |-> heap[rds_versions]])
    /\ hpc' = "idle"
    /\ h_ref' = 0
    /\ h_i' = 0
    /\ h_buf' = <<>>
    /\ h_seen' = NoSeen
    /\ UNCHANGED <<rds_versions, heap, vpc, fetch_stdout, fetch_parsed, nfetch, serving,
                   flog, nreq>>
    /\ UNCHANGED <<variant, rvars, fvars, nvars, gvars, uvars, evars, pvars, tvars>>

\* rds_versions = [] at import; main() is about to call fetch_rds_versions()
InitVersions ==
    /\ variant = "rds"
    /\ rds_versions = 0
    /\ heap = (0 :> <<>>)
    /\ vpc = "idle"
    /\ fetch_stdout = <<>>
    /\ fetch_parsed = 0
    /\ nfetch = 0
    /\ serving = FALSE
    /\ flog = <<>>
    /\ hpc = "idle"
    /\ h_ref = 0
    /\ h_i = 0
    /\ h_buf = <<>>
    /\ h_seen = NoSeen
    /\ nreq = 0
    /\ responses = <<>>
    /\ ReconcileAtRest
    /\ FetchAtRest
    /\ NormalizeAtRest
    /\ GroupAtRest
    /\ RunAtRest
    /\ ExportAtRest
    /\ PollerAtRest
    /\ StagesAtRest

NextVersions ==
    \/ FetchCommand
    \/ FetchParse
    \/ FetchStore
    \/ HandlerLoad
    \/ HandlerEncode
    \/ HandlerWrite

SpecVersions == InitVersions /\ [][NextVersions]_vars

----------------------------------------------------------------------------
(* Claims about the version server (SpecVersions) *)

\* the list parsed by the latest fetch of the log that succeeded, the empty
\* list if none did
LastGood(log) ==
    LET oks == {i \in 1..Len(log) : log[i].outcome = "ok"}
    IN  IF oks = {} THEN <<>>
        ELSE log[CHOOSE i \in oks : \A j \in oks : j <= i].value

\* C31: the global always holds the snapshot of the most recent successful
\* fetch, the empty list if none has succeeded (a fetch ending in a command
\* error or an unparsable output leaves it as it was), and every 200
\* response to GET /aws_rds_version carries the encoding of the snapshot of
\* the most recent fetch that had succeeded when the handler read the global.
C31_ServesLastGoodSnapshot ==
    /\ heap[rds_versions] = LastGood(flog)
    /\ \A i \in 1..Len(responses) :
         responses[i].status = 200
           => responses[i].body = json_dumps(LastGood(SubSeq(flog, 1, responses[i].at)))

\* C31 witness: a non-empty snapshot was stored, a later refresh failed, and
\* a request received after the failure was answered with that snapshot
C31_Witness ==
    /\ Len(flog) = 2
    /\ flog[1].outcome = "ok" /\ flog[1].value # <<>>
    /\ flog[2].outcome \in {"error", "unparsable"}
    /\ \E i \in 1..Len(responses) :
         /\ responses[i].status = 200
         /\ responses[i].at = 2
         /\ responses[i].body = json_dumps(flog[1].value)

\* C38: whatever the interleaving of the handler and of a refresh, the body
\* of every 200 response is the encoding of one complete snapshot: the one
\* the global held when the handler read it, or the one it holds when the
\* response is written.
C38_ResponseIsOneSnapshot ==
    \A i \in 1..Len(responses) :
        responses[i].status = 200
          => responses[i].body \in {json_dumps(responses[i].before),
                                    json_dumps(responses[i].after)}

\* C38 witness: a refresh stored another non-empty snapshot between the
\* handler's read of the global and its write of the response
C38_Witness ==
    \E i \in 1..Len(responses) :
        /\ responses[i].status = 200
        /\ responses[i].before # <<>>
        /\ responses[i].after # <<>>
        /\ responses[i].before # responses[i].after

----------------------------------------------------------------------------
(* The order of the stages of a run: the requests sync_azure_pricing and    *)
(* main() of GCP-Pricing-Final.py issue, to the pricing source and to the   *)
(* destination catalog, one request or one upsert per step.                 *)

\* Azure: calls of _fetch_paginated_data (one per service and region)
MaxFetchCalls == 2
\* pages a call may request (max_pages)
MaxCallPages == 2
\* source items a run collects
MaxStageItems == 2

\* Azure: for service in AZURE_SERVICES, for region in regions; GCP: the one
\* call of get_all_skus
FetchCalls(v) == IF v = "azure" THEN MaxFetchCalls ELSE 1

\* mutant: the upload starts as soon as one fetch call has returned
fetch_loop_ended_Streaming(v, calls_done) == calls_done >= 1
\* the statements after the fetch loop (Azure) or after get_all_skus (GCP)
\* are reached when every fetch call has returned
fetch_loop_ended(v, calls_done) == calls_done >= FetchCalls(v)

ToSource(m) == [to |-> "source", method |-> m]
ToDestination(m) == [to |-> "destination", method |-> m]

\* one page request to the pricing source and what the fetcher does with its
\* answer.  Azure: a failed request breaks out of the call, which returns
\* what it has; GCP: it raises out of main().  if not all_azure_items:
\* return False; with no SKU process_pricing_data has nothing to do.
SourceRequest ==
    /\ tpc = "run"
    /\ svc_i < FetchCalls(variant)
    /\ trace' = Append(trace, ToSource("GET"))
    /\ \E ok \in BOOLEAN, got \in 0..1, more \in BOOLEAN :
         LET n == IF ok /\ fetched_n < MaxStageItems THEN fetched_n + got ELSE fetched_n
             goes_on == ok /\ more /\ page_i + 1 < MaxCallPages
             calls_done == IF goes_on THEN svc_i ELSE svc_i + 1
         IN  /\ fetched_n' = (IF ~ok /\ variant = "gcp" THEN 0 ELSE n)
             /\ page_i' = (IF goes_on THEN page_i + 1 ELSE 0)
             /\ svc_i' = calls_done
             /\ tpc' = IF \/ ~ok /\ variant = "gcp"
                          \/ calls_done >= FetchCalls(variant) /\ n = 0
                       THEN "done" ELSE "run"
    /\ UNCHANGED <<up_i, ok_n, sets_n>>
    /\ UNCHANGED <<variant, rvars, fvars, nvars, gvars, uvars, evars, pvars, svars>>

\* the requests of one create_or_update_price, none when the conversion
\* raised or skipped the item, and whether an id was obtained
UpsertRequests ==
    { [reqs |-> <<>>, id |-> FALSE],
      [reqs |-> <<"GET">>, id |-> FALSE],
      [reqs |-> <<"GET", "PUT">>, id |-> FALSE],
      [reqs |-> <<"GET", "PUT">>, id |-> TRUE],
      [reqs |-> <<"GET", "POST">>, id |-> FALSE],
      [reqs |-> <<"GET", "POST">>, id |-> TRUE] }

\* one item of the upload loop (Azure) or one SKU of a category (GCP)
DestUpsert ==
    /\ tpc = "run"
    /\ fetch_loop_ended(variant, svc_i)
    /\ up_i < fetched_n
    /\ variant = "azure" => sets_n = 0
    /\ \E u \in UpsertRequests :
         /\ trace' = trace \o [k \in 1..Len(u.reqs) |-> ToDestination(u.reqs[k])]
         /\ ok_n' = ok_n + (IF u.id THEN 1 ELSE 0)
    /\ up_i' = up_i + 1
    /\ UNCHANGED <<tpc, svc_i, page_i, fetched_n, sets_n>>
    /\ UNCHANGED <<variant, rvars, fvars, nvars, gvars, uvars, evars, pvars, svars>>

\* POST /api/price-sets for one group: Azure after the upload loop, GCP at
\* the end of a category that obtained ids
DestPriceSet ==
    /\ tpc = "run"
    /\ fetch_loop_ended(variant, svc_i)
    /\ sets_n < ok_n
    /\ variant = "azure" => up_i = fetched_n
    /\ trace' = Append(trace, ToDestination("POST"))
    /\ sets_n' = sets_n + 1
    /\ UNCHANGED <<tpc, svc_i, page_i, fetched_n, up_i, ok_n>>
    /\ UNCHANGED <<variant, rvars, fvars, nvars, gvars, uvars, evars, pvars, svars>>

\* the run returns: every item gone through, and a price set submitted if
\* any price obtained an id
StagesReturn ==
    /\ tpc = "run"
    /\ fetch_loop_ended(variant, svc_i)
    /\ up_i = fetched_n
    /\ ok_n > 0 => sets_n > 0
    /\ tpc' = "done"
    /\ UNCHANGED <<svc_i, page_i, fetched_n, up_i, ok_n, sets_n, trace>>
    /\ UNCHANGED <<variant, rvars, fvars, nvars, gvars, uvars, evars, pvars, svars>>

InitStages ==
    /\ variant \in {"azure", "gcp"}
    /\ tpc = "run"
    /\ svc_i = 0
    /\ page_i = 0
    /\ fetched_n = 0
    /\ up_i = 0
    /\ ok_n = 0
    /\ sets_n = 0
    /\ trace = <<>>
    /\ ReconcileAtRest
    /\ FetchAtRest
    /\ NormalizeAtRest
    /\ GroupAtRest
    /\ RunAtRest
    /\ ExportAtRest
    /\ PollerAtRest
    /\ VersionsAtRest

NextStages ==
    \/ SourceRequest
    \/ DestUpsert
    \/ DestPriceSet
    \/ StagesReturn

SpecStages == InitStages /\ [][NextStages]_vars

----------------------------------------------------------------------------
(* Claims about the stages (SpecStages) *)

\* C34: every request to the pricing source precedes every request to the
\* destination catalog: once a lookup, create, update or price-set request
\* has been issued, no source request is issued in that run.
C34_SourceBeforeDestination ==
    \A i, j \in 1..Len(trace) :
        (trace[i].to = "destination" /\ trace[j].to = "source") => j < i

\* C34 witness: a run that ended after several source requests, an upsert
\* and a price set
C34_Witness ==
    /\ tpc = "done"
    /\ Cardinality({i \in 1..Len(trace) : trace[i].to = "source"}) >= 2
    /\ \E i, j \in 1..Len(trace) :
         /\ trace[i] = ToDestination("PUT")
         /\ trace[j] = ToDestination("POST")
         /\ i < j

====
